---- MODULE Spec2Model ----
(***************************************************************************)
(* A model of the three-phase memory workflow of claude_memory:           *)
(* core/workflow_enforcer.py (the phase engine), backends/file_backend.py *)
(* (the store), core/file_lock.py (the lock), core/memory_manager.py (the *)
(* facade) and core/session_workflow_manager.py + core/context_loader.py  *)
(* (the coordination layer).                                              *)
(*                                                                         *)
(* The store holds, per task, three memory files of one session.  A file  *)
(* is its existence flag, its read-only flag and its content; content is  *)
(* a sequence of chunks (a template, a raw text, an attributed section).  *)
(* Every operation is a process that takes one step per backend call, so  *)
(* that concurrent callers interleave exactly where the code lets them.   *)
(* Time stamps are left out of the chunks.  A caller waits for its lock;   *)
(* concurrent callers of the engine may also time out.  The read-only     *)
(* flag of a file is its permission bits: they reject the writes of an    *)
(* ordinary user and not those of root.                                   *)
(***************************************************************************)
EXTENDS Integers, Sequences, FiniteSets, TLC

\* ------------------------------------------------------------------ bounds
MaxLen == 2             \* no call is started on a scratchpad or progress file of MaxLen chunks
Tasks == {"alpha", "beta"}
EngineTasks == {"alpha"}    \* engine calls of different tasks share no file, lock or marker
Procs == {"p1", "p2"}
Agents == {"Main Agent", "python-expert"}
Contents == {"", "notes", "# Fix", "following the plan", "Based On design", "explanation"}

\* content.startswith("# ")
StartsWithHeading(c) == c \in {"# Fix"}

\* ------------------------------------------------------------------- types
Kinds == {"scratchpad", "plan", "progress"}
WorkflowPhase == {"SETUP", "DISCOVERY", "PLANNING", "EXECUTION", "INVALID"}
Actions == {"scratchpad", "ensure", "append"}
\* the action strings a caller of the facade may pass: the three actions and
\* a string that is none of them
ActionStrings == Actions \cup {"status"}

VARIABLES
    fs,         \* fs[t][k]: the memory file of task t and kind k
    markers,    \* the phase-transition markers written: <<task, to_phase>>
    lockFile,   \* lockFile[t][k]: inode linked at the lock path of the file, 0 = none
    proc,       \* proc[p]: the call process p is running, or its last result
    mode,       \* CONTEXT_AWARE_ENABLED
    superuser,  \* the process runs as a user that file permissions do not bind
    session,    \* the session record's active_tasks
    query,      \* the last result of a pure query
    lockStat,   \* lockStat[t][k]: age and owner of the lock file, where the sweep runs
    contextCache,  \* contextCache[t]: _context_cache of a context loader, where one is used
    registry,   \* the .session_id pointer and the records of sessions/, where sessions come and go
    earlier     \* the tasks whose directory holds memory files of earlier sessions

vars == <<fs, markers, lockFile, proc, mode, superuser, session, query, lockStat, contextCache, registry, earlier>>

\* --------------------------------------------------------------- the store
NoFile == [exists |-> FALSE, readonly |-> FALSE, content |-> <<>>]
\* the lock file as the sweep sees it: the time since it was last written,
\* whether it holds a "pid:" line, whether the process that made it runs, and
\* whether that process has still to write its pid
Fresh == [age |-> 0, pid |-> FALSE, alive |-> TRUE, opening |-> TRUE]
NoStat == [t \in Tasks |-> [k \in Kinds |-> Fresh]]
\* the context of a task as load_existing_context builds it, and no context
Context(phase, files) == [cached |-> TRUE, current_phase |-> phase, files |-> files]
NoContext == [cached |-> FALSE, current_phase |-> "none", files |-> <<>>]
NoCache == [t \in Tasks |-> NoContext]
\* the session ids _generate_session_id can give, a session record
\* (sessions/<id>.json: the days since updated_at, and active_tasks), no
\* record, and the registry of a fresh memory directory
SessionIds == {"s1", "s2", "s3"}
SessionInfo(days, tasks) == [exists |-> TRUE, days |-> days, active_tasks |-> tasks]
NoSession == [exists |-> FALSE, days |-> 0, active_tasks |-> <<>>]
NoRegistry == [current |-> "none", records |-> [i \in SessionIds |-> NoSession]]

Chunk(kind, agent, body) == [kind |-> kind, agent |-> agent, body |-> body]
Template(k) == Chunk("template", "", k)
Raw(c) == Chunk("raw", "", c)
\* the text of a content string as chunks: the empty string is no text at all
Text(c) == IF c = "" THEN <<>> ELSE <<Raw(c)>>

Exists(t, k) == fs[t][k].exists
IsReadonly(t, k) == fs[t][k].exists /\ fs[t][k].readonly
\* the file denies the process the permission to write (os.access)
Denies(f, t, k) == f[t][k].exists /\ f[t][k].readonly /\ ~superuser
\* FileBackend.is_readonly
is_readonly(t, k) == Denies(fs, t, k)
Read(t, k) == fs[t][k].content

\* FileBackend.write: create or overwrite; a read-only file rejects the write,
\* the error is swallowed and the file is left as it was
BackendWrite(f, t, k, text) ==
    IF Denies(f, t, k)
    THEN f
    ELSE [f EXCEPT ![t][k] = [exists |-> TRUE, readonly |-> f[t][k].exists /\ f[t][k].readonly,
                              content |-> text]]

\* append opening the file for writing instead of appending
BackendAppendTruncating(f, t, k, text) == BackendWrite(f, t, k, text)

\* FileBackend.append: write when the file is missing, else append
BackendAppend(f, t, k, text) ==
    IF ~f[t][k].exists THEN BackendWrite(f, t, k, text)
    ELSE IF Denies(f, t, k) THEN f
    ELSE [f EXCEPT ![t][k].content = @ \o text]

MakeReadonly(f, t, k) ==
    IF f[t][k].exists THEN [f EXCEPT ![t][k].readonly = TRUE] ELSE f

\* ------------------------------------------------------- the phase engine
\* WorkflowEnforcer.get_workflow_phase on the triple get_task_files returns
PhaseOf(s, p, g) ==
    IF ~(s \/ p \/ g) THEN "SETUP"
    ELSE IF s /\ ~p /\ ~g THEN "DISCOVERY"
    ELSE IF s /\ p /\ ~g THEN "PLANNING"
    ELSE IF p /\ g THEN "EXECUTION"
    ELSE IF ~s /\ p THEN "INVALID"
    ELSE "INVALID"

PhaseDescription(s, p, g) ==
    IF ~(s \/ p \/ g) THEN "No files created - start with scratchpad"
    ELSE IF s /\ ~p /\ ~g THEN "Scratchpad exists - continue exploration or create plan"
    ELSE IF s /\ p /\ ~g THEN "Plan created - ready to begin execution"
    ELSE IF p /\ g THEN "Implementation in progress"
    ELSE IF ~s /\ p THEN "Plan exists without scratchpad - invalid state"
    ELSE "Inconsistent file state"

get_workflow_phase(t) ==
    PhaseOf(Exists(t, "scratchpad"), Exists(t, "plan"), Exists(t, "progress"))

\* the tasks with a file of the session in their directory: a memory file or
\* the lock file of one, whose name holds the session id as well
HasSessionFiles(t) == \E k \in Kinds : fs[t][k].exists \/ lockFile[t][k] # 0
\* WorkflowEnforcer._get_active_tasks_in_session
ActiveTasksInSession == {t \in Tasks : HasSessionFiles(t)}
\* WorkflowContextLoader.get_active_task returns the first such directory in
\* the order the directory is listed, which the code does not fix
NoTask == "<none>"
get_active_task == IF ActiveTasksInSession = {} THEN {NoTask} ELSE ActiveTasksInSession

\* phase_rules of validate_action: the actions allowed and those blocked
PhaseAllowed(phase) ==
    CASE phase = "SETUP" -> {"scratchpad"}
      [] phase = "DISCOVERY" -> {"scratchpad", "ensure"}
      [] phase = "PLANNING" -> {"append", "ensure"}
      [] phase = "EXECUTION" -> {"append"}
      [] OTHER -> {}

PhaseBlocked(phase) ==
    CASE phase = "SETUP" -> {"ensure", "append"}
      [] phase = "DISCOVERY" -> {"append"}
      [] phase = "PLANNING" -> {"scratchpad"}
      [] phase = "EXECUTION" -> {"scratchpad", "ensure"}
      [] OTHER -> {"scratchpad", "ensure", "append"}

PhaseGuidance(phase, action) ==
    CASE phase = "SETUP" /\ action = "ensure" -> "Cannot create plan yet! Start with exploration: scratchpad"
      [] phase = "SETUP" /\ action = "append" -> "Cannot track progress yet! Start with exploration: scratchpad"
      [] phase = "DISCOVERY" /\ action = "append" -> "Cannot track progress yet! Complete discovery, then create plan: plan"
      [] phase = "PLANNING" /\ action = "scratchpad" -> "Discovery phase is complete! Review/edit plan or begin execution: edit-plan or append"
      [] phase = "EXECUTION" /\ action = "scratchpad" -> "Discovery phase is complete! Continue implementation: append"
      [] phase = "EXECUTION" /\ action = "ensure" -> "Plan is locked and execution has started! Continue implementation: append"
      [] phase = "INVALID" -> "Invalid state detected! Check task status: status"
      [] OTHER -> "Action not allowed in this phase"

PhaseSuccess(phase) ==
    CASE phase = "SETUP" -> "Starting discovery phase with scratchpad"
      [] phase = "DISCOVERY" -> "Continue exploration or create implementation plan"
      [] phase = "PLANNING" -> "Plan is ready for review. You can edit it or begin execution"
      [] phase = "EXECUTION" -> "Continue tracking progress with append"
      [] OTHER -> "Manual review required"

Verdict(allowed, msg) == [allowed |-> allowed, msg |-> msg]

\* ---------------------------------------------------------- text as characters
\* A text is a sequence of characters; these are the characters of the
\* strings of the model.
Chars(c) ==
    CASE c = "notes" -> <<"n", "o", "t", "e", "s">>
      [] c = "# Fix" -> <<"#", " ", "F", "i", "x">>
      [] c = "following the plan" -> <<
        "f", "o", "l", "l", "o", "w", "i", "n", "g", " ", "t", "h", "e", " ", "p", "l", "a", "n" >>
      [] c = "Based On design" -> <<
        "B", "a", "s", "e", "d", " ", "O", "n", " ", "d", "e", "s", "i", "g", "n" >>
      [] c = "explanation" -> <<"e", "x", "p", "l", "a", "n", "a", "t", "i", "o", "n">>
      [] c = "alpha" -> <<"a", "l", "p", "h", "a">>
      [] c = "beta" -> <<"b", "e", "t", "a">>
      [] c = "Main Agent" -> <<"M", "a", "i", "n", " ", "A", "g", "e", "n", "t">>
      [] c = "python-expert" -> <<"p", "y", "t", "h", "o", "n", "-", "e", "x", "p", "e", "r", "t">>
      [] c = "Initial Content" -> <<
        "I", "n", "i", "t", "i", "a", "l", " ", "C", "o", "n", "t", "e", "n", "t" >>
      [] c = "Update" -> <<"U", "p", "d", "a", "t", "e">>
      [] c = "parser drops nested commas" -> <<
        "p", "a", "r", "s", "e", "r", " ", "d", "r", "o", "p", "s", " ", "n", "e", "s", "t", "e", "d", " ", "c", "o", "m", "m", "a", "s" >>
      [] OTHER -> <<>>

\* _get_scratchpad_template (lines 690-708) of task t, the time stamp and the
\* session id left out
ScratchpadTemplateChars(t) ==
    <<"#", " ">> \o Chars(t) \o <<
        " ", "-", " ", "D", "i", "s", "c", "o", "v", "e", "r", "y", " ", "S", "c", "r", "a",
        "t", "c", "h", "p", "a", "d", "\n", "\n", "*", "*", "C", "r", "e", "a", "t", "e", "d",
        ":", "*", "*", " ", "\n", "*", "*", "S", "e", "s", "s", "i", "o", "n", ":", "*", "*",
        " ", "\n", "\n", "#", "#", " ", "E", "x", "p", "l", "o", "r", "a", "t", "i", "o", "n",
        " ", "N", "o", "t", "e", "s", "\n", "\n", "<", "!", "-", "-", " ", "U", "s", "e", " ",
        "t", "h", "i", "s", " ", "s", "p", "a", "c", "e", " ", "f", "o", "r", " ", "m", "e",
        "s", "s", "y", " ", "e", "x", "p", "l", "o", "r", "a", "t", "i", "o", "n", ",", " ",
        "q", "u", "e", "s", "t", "i", "o", "n", "s", ",", " ", "d", "e", "a", "d", " ", "e",
        "n", "d", "s", ",", " ", "a", "n", "d", " ", "d", "i", "s", "c", "o", "v", "e", "r",
        "i", "e", "s", " ", "-", "-", ">", "\n", "\n", "#", "#", " ", "Q", "u", "e", "s", "t",
        "i", "o", "n", "s", "\n", "\n", "#", "#", " ", "F", "i", "n", "d", "i", "n", "g", "s",
        "\n", "\n", "#", "#", " ", "N", "e", "x", "t", " ", "S", "t", "e", "p", "s", "\n", "\n" >>

\* a chunk of the scratchpad of task t as the code wrote it (lines 358, 363)
ChunkChars(t, ch) ==
    IF ch.kind = "template" THEN ScratchpadTemplateChars(t)
    ELSE IF ch.kind = "raw" THEN Chars(ch.body)
    ELSE <<"\n", "#", "#", " ">> \o Chars(ch.kind) \o <<" ", "-", " ">> \o Chars(ch.agent)
         \o <<" ", "-", " ", "\n", "\n">> \o Chars(ch.body) \o <<"\n">>

RECURSIVE FileChars(_, _)
FileChars(t, text) ==
    IF text = <<>> THEN <<>> ELSE ChunkChars(t, Head(text)) \o FileChars(t, Tail(text))

Whitespace == {" ", "\n", "\t"}
\* str.lower, on the letters of the model
lower(ch) ==
    CASE ch = "A" -> "a" [] ch = "B" -> "b" [] ch = "C" -> "c" [] ch = "D" -> "d"
      [] ch = "E" -> "e" [] ch = "F" -> "f" [] ch = "G" -> "g" [] ch = "H" -> "h"
      [] ch = "I" -> "i" [] ch = "J" -> "j" [] ch = "K" -> "k" [] ch = "L" -> "l"
      [] ch = "M" -> "m" [] ch = "N" -> "n" [] ch = "O" -> "o" [] ch = "P" -> "p"
      [] ch = "Q" -> "q" [] ch = "R" -> "r" [] ch = "S" -> "s" [] ch = "T" -> "t"
      [] ch = "U" -> "u" [] ch = "V" -> "v" [] ch = "W" -> "w" [] ch = "X" -> "x"
      [] ch = "Y" -> "y" [] ch = "Z" -> "z"
      [] OTHER -> ch

\* plan_keywords of append_progress (line 460)
PlanKeywords == {
    <<"p", "l", "a", "n">>,
    <<"s", "t", "r", "a", "t", "e", "g", "y">>,
    <<"a", "p", "p", "r", "o", "a", "c", "h">>,
    <<"b", "a", "s", "e", "d", " ", "o", "n">>,
    <<"f", "o", "l", "l", "o", "w", "i", "n", "g">>,
    <<"a", "c", "c", "o", "r", "d", "i", "n", "g", " ", "t", "o">> }
\* sub in s, for strings
Contains(s, sub) == \E i \in 0..(Len(s) - Len(sub)) : SubSeq(s, i + 1, i + Len(sub)) = sub
\* the keywords looked for in the content as it is written
HasPlanKeywordCaseSensitive(c) == \E kw \in PlanKeywords : Contains(Chars(c), kw)

\* any(keyword in content.lower() for keyword in plan_keywords) (line 461)
HasPlanKeyword(c) ==
    \E kw \in PlanKeywords : Contains([i \in 1..Len(Chars(c)) |-> lower(Chars(c)[i])], kw)
\* the contents that hold no plan-acknowledgment keyword
NoKeywordContents == {c \in Contents : ~HasPlanKeyword(c)}

\* the positions of s that hold no whitespace
Inked(s) == {i \in 1..Len(s) : s[i] \notin Whitespace}
\* str.strip: the text without its leading and trailing whitespace
lstrip(s) ==
    IF Inked(s) = {} THEN <<>>
    ELSE SubSeq(s, CHOOSE i \in Inked(s) : \A j \in Inked(s) : i <= j, Len(s))
rstrip(s) ==
    IF Inked(s) = {} THEN <<>>
    ELSE SubSeq(s, 1, CHOOSE i \in Inked(s) : \A j \in Inked(s) : j <= i)
strip(s) == rstrip(lstrip(s))

\* re.sub(r'\s+', ' ', s): every run of whitespace becomes one space; the
\* whitespace after the first of a run is marked "" and left out
collapse(s) ==
    LET marked == [i \in 1..Len(s) |->
                     IF s[i] \notin Whitespace THEN s[i]
                     ELSE IF i > 1 /\ s[i - 1] \in Whitespace THEN "" ELSE " "]
        Kept(ch) == ch # ""
    IN  SelectSeq(marked, Kept)

\* normalize of is_content_duplicate (lines 238-239)
normalize(text) == collapse(strip([i \in 1..Len(text) |-> lower(text[i])]))

\* set(s.split()): the words of s, each from its first character to the
\* last one before whitespace or the end
split(s) ==
    LET first == {i \in Inked(s) : i = 1 \/ s[i - 1] \in Whitespace}
        last(a) == CHOOSE b \in a..Len(s) :
                      /\ \A j \in a..b : s[j] \notin Whitespace
                      /\ b = Len(s) \/ s[b + 1] \in Whitespace
    IN  {SubSeq(s, a, last(a)) : a \in first}

DuplicateMinLen == 20
\* is_content_duplicate with the threshold included: overlap_ratio >= 0.7
is_content_duplicateAtLeast(new, existing) ==
    IF existing = <<>> \/ new = <<>> THEN FALSE
    ELSE IF Len(normalize(new)) < DuplicateMinLen THEN FALSE
    ELSE LET words_new == split(normalize(new))
             words_existing == split(normalize(existing))
         IN  10 * Cardinality(words_new \cap words_existing) >= 7 * Cardinality(words_new)

\* WorkflowContextLoader.is_content_duplicate, on texts as characters;
\* overlap / len(words_new) > 0.7 in whole numbers
is_content_duplicate(new, existing) ==
    IF existing = <<>> \/ new = <<>> THEN FALSE
    ELSE IF Len(normalize(new)) < DuplicateMinLen THEN FALSE
    ELSE LET words_new == split(normalize(new))
             words_existing == split(normalize(existing))
         IN  IF Cardinality(words_new) = 0 THEN FALSE
             ELSE 10 * Cardinality(words_new \cap words_existing) > 7 * Cardinality(words_new)

\* SessionWorkflowManager.validate_contribution, for the active task that
\* get_active_task returned
validate_contribution(active, t, content, action) ==
    IF active # NoTask /\ t # active
    THEN Verdict(FALSE, "Task name mismatch! Use correct task name")
    ELSE IF action = "scratchpad" /\ Exists(t, "scratchpad")
            /\ is_content_duplicate(Chars(content), FileChars(t, Read(t, "scratchpad")))
    THEN Verdict(FALSE, "This exploration already exists in scratchpad!")
    ELSE Verdict(TRUE, "Valid contribution")

\* a claim that is granted whatever the session is working on
claim_workflowAlways(active, t) == Verdict(TRUE, "Claimed new workflow")

\* SessionWorkflowManager.claim_workflow
claim_workflow(active, t) ==
    IF active # NoTask
    THEN IF active = t
         THEN Verdict(TRUE, "Continuing existing workflow")
         ELSE Verdict(FALSE, "Cannot create task. Session already working on another task")
    ELSE Verdict(TRUE, "Claimed new workflow")

\* phase_rules with the scratchpad left open in PLANNING, in both lists
PhaseRulesOpenScratchpad(phase, action) ==
    IF action \in PhaseBlocked(phase) /\ ~(phase = "PLANNING" /\ action = "scratchpad")
    THEN Verdict(FALSE, PhaseGuidance(phase, action))
    ELSE IF action \notin PhaseAllowed(phase) \cup (IF phase = "PLANNING" THEN {"scratchpad"} ELSE {})
    THEN Verdict(FALSE, "Invalid action for phase")
    ELSE Verdict(TRUE, PhaseSuccess(phase))

\* the phase table of validate_action (lines 267-328)
PhaseRules(phase, action) ==
    IF action \in PhaseBlocked(phase) THEN Verdict(FALSE, PhaseGuidance(phase, action))
    ELSE IF action \notin PhaseAllowed(phase)
    THEN Verdict(FALSE, "Invalid action for phase")
    ELSE Verdict(TRUE, PhaseSuccess(phase))

\* validate_action whose legacy branch has no single-task rule
validate_actionLegacyOpen(active1, active2, t, action, content) ==
    LET phase == get_workflow_phase(t)
        contribution == validate_contribution(active1, t, content, action)
        claim == claim_workflow(active2, t)
    IN  IF mode
        THEN IF ~contribution.allowed THEN contribution
             ELSE IF phase = "SETUP" /\ action = "scratchpad" /\ ~claim.allowed THEN claim
             ELSE PhaseRules(phase, action)
        ELSE PhaseRules(phase, action)

\* WorkflowEnforcer.validate_action; active1 and active2 are what the two
\* directory scans of the coordination layer returned
validate_action(active1, active2, t, action, content) ==
    LET phase == get_workflow_phase(t)
        contribution == validate_contribution(active1, t, content, action)
        claim == claim_workflow(active2, t)
        others == ActiveTasksInSession \ {t}
    IN  IF mode
        THEN IF ~contribution.allowed THEN contribution
             ELSE IF phase = "SETUP" /\ action = "scratchpad" /\ ~claim.allowed THEN claim
             ELSE PhaseRules(phase, action)
        ELSE IF action = "scratchpad" /\ phase = "SETUP" /\ others # {}
             THEN Verdict(FALSE, "Single-task-per-session rule: active task(s) exist")
             ELSE PhaseRules(phase, action)

\* --------------------------------------------------------------- the lock
\* the file an operation locks
LockKind(op) ==
    CASE op = "create_scratchpad" -> "scratchpad"
      [] op = "create_plan" -> "plan"
      [] op = "update_plan" -> "plan"
      [] OTHER -> "progress"

\* the processes that hold the flock of inode i of the lock path of (t, k)
Holders(t, k, i) ==
    {q \in Procs : proc[q].ino = i /\ proc[q].task = t /\ LockKind(proc[q].op) = k}

\* an inode number no lock file of the path has: neither the linked one nor
\* one a process still holds open
FreshInode(t, k) ==
    CHOOSE i \in 1..(Cardinality(Procs) + 1) :
        /\ Holders(t, k, i) = {}
        /\ \A j \in 1..(i - 1) : Holders(t, k, j) # {}

\* FileLock.acquire, one try: open the lock file (O_CREAT) and flock it
\* without blocking.  The try that fails closes the handle and is retried, which
\* changes nothing; the process waits.
TryAcquire(p, next) ==
    LET t == proc[p].task
        k == LockKind(proc[p].op)
        cur == lockFile[t][k]
    IN  IF cur = 0
        THEN /\ lockFile' = [lockFile EXCEPT ![t][k] = FreshInode(t, k)]
             /\ proc' = [proc EXCEPT ![p].ino = FreshInode(t, k), ![p].pc = next]
        ELSE /\ Holders(t, k, cur) = {}
             /\ lockFile' = lockFile
             /\ proc' = [proc EXCEPT ![p].ino = cur, ![p].pc = next]

\* ---------------------------------------------------------- the processes
EngineOps == {"create_scratchpad", "create_plan", "update_plan", "append_progress"}

FirstPc(op) ==
    CASE op = "create_scratchpad" -> "cs_lock"
      [] op = "create_plan" -> "cp_files"
      [] op = "update_plan" -> "up_phase"
      [] OTHER -> "ap_files"

\* verb, success and phase are the facade's; pre and len0 record the phase of
\* the task and the length of its progress file at the call, for the
\* statements about the call; tries is what is left of acquire's retry budget
Idle == [pc |-> "idle", op |-> "none", via |-> "engine", verb |-> "none", task |-> "alpha",
         content |-> "", agent |-> "Main Agent", ino |-> 0, saw |-> FALSE, tasks |-> <<>>,
         res |-> "none", success |-> FALSE, phase |-> "none", pre |-> "none", len0 |-> 0,
         tries |-> 0]

\* the call returns res to its caller: the engine's caller, or the facade
Return(p, res) ==
    [proc EXCEPT ![p].res = res,
                 ![p].pc = IF proc[p].via = "engine" THEN "done" ELSE "f_result"]

At(p, pc) == proc[p].pc = pc

\* a caller invokes operation op of the engine
Invoke(p, op, t, c, a, pre, len0) ==
    proc' = [proc EXCEPT ![p] =
               [Idle EXCEPT !.pc = FirstPc(op), !.op = op, !.task = t, !.content = c, !.agent = a,
                            !.pre = pre, !.len0 = len0]]

\* the file that grows with the calls of the operation is still short
Short(op, t, n) ==
    /\ op = "create_scratchpad" => Len(Read(t, "scratchpad")) < n
    /\ op = "append_progress" => Len(Read(t, "progress")) < n

\* the inputs of concurrent callers: the contents and contributors that make
\* an operation of the engine take each of its branches
OpContents(op) ==
    CASE op = "create_scratchpad" -> {""}
      [] op = "create_plan" -> {"notes", "# Fix"}
      [] op = "update_plan" -> {"", "notes"}
      [] OTHER -> {"notes", "following the plan"}
OpAgents(op) == IF op = "append_progress" THEN Agents ELSE {"Main Agent"}

Call(p) ==
    /\ At(p, "idle")
    /\ \E op \in EngineOps, t \in EngineTasks :
          /\ Short(op, t, MaxLen)
          /\ \E c \in OpContents(op), a \in OpAgents(op) :
                Invoke(p, op, t, c, a,
                       IF op = "append_progress" THEN get_workflow_phase(t) ELSE "none", 0)
    /\ UNCHANGED <<fs, markers, lockFile, mode, superuser, session, query, lockStat, contextCache, registry, earlier>>

\* the caller has its result and goes on
Done(p) ==
    /\ At(p, "done")
    /\ proc' = [proc EXCEPT ![p] = Idle]
    /\ UNCHANGED <<fs, markers, lockFile, mode, superuser, session, query, lockStat, contextCache, registry, earlier>>

\* -- create_scratchpad (lines 330-367)
\* create_scratchpad going on without the lock of the scratchpad
CsLockSkipped(p) ==
    /\ At(p, "cs_lock")
    /\ proc' = [proc EXCEPT ![p].pc = "cs_check"]
    /\ UNCHANGED <<fs, markers, lockFile, mode, superuser, session, query, lockStat, contextCache, registry, earlier>>

CsLock(p) ==
    /\ At(p, "cs_lock") /\ TryAcquire(p, "cs_check")
    /\ UNCHANGED <<fs, markers, mode, superuser, session, query, lockStat, contextCache, registry, earlier>>

CsCheck(p) ==
    /\ At(p, "cs_check")
    /\ proc' = [proc EXCEPT ![p].saw = Exists(proc[p].task, "scratchpad"), ![p].pc = "cs_write"]
    /\ UNCHANGED <<fs, markers, lockFile, mode, superuser, session, query, lockStat, contextCache, registry, earlier>>

ScratchpadEntry(exists, agent, c) ==
    IF ~exists
    THEN <<Template("scratchpad")>> \o (IF c # "" THEN <<Chunk("Initial Content", agent, c)>> ELSE <<>>)
    ELSE <<Chunk("Update", agent, c)>>

CsWrite(p) ==
    /\ At(p, "cs_write")
    /\ LET t == proc[p].task
           c == proc[p].content
           e == ScratchpadEntry(proc[p].saw, proc[p].agent, c)
       IN  fs' = IF ~proc[p].saw THEN BackendWrite(fs, t, "scratchpad", e)
                 ELSE IF c # "" THEN BackendAppend(fs, t, "scratchpad", e)
                 ELSE fs
    /\ proc' = [proc EXCEPT ![p].pc = "unlock"]
    /\ UNCHANGED <<markers, lockFile, mode, superuser, session, query, lockStat, contextCache, registry, earlier>>

\* -- FileLock.release: unlock and close, then unlink the lock path
Unlock(p) ==
    /\ At(p, "unlock")
    /\ proc' = [proc EXCEPT ![p].ino = 0, ![p].pc = "unlink"]
    /\ UNCHANGED <<fs, markers, lockFile, mode, superuser, session, query, lockStat, contextCache, registry, earlier>>

Unlink(p) ==
    /\ At(p, "unlink")
    /\ lockFile' = [lockFile EXCEPT ![proc[p].task][LockKind(proc[p].op)] = 0]
    /\ proc' = Return(p, "ok")
    /\ UNCHANGED <<fs, markers, mode, superuser, session, query, lockStat, contextCache, registry, earlier>>

\* -- create_plan (lines 369-415)
\* create_plan without its scratchpad precondition
CpFilesUnchecked(p) ==
    /\ At(p, "cp_files")
    /\ proc' = [proc EXCEPT ![p].pc = "cp_exists"]
    /\ UNCHANGED <<fs, markers, lockFile, mode, superuser, session, query, lockStat, contextCache, registry, earlier>>

CpFiles(p) ==
    /\ At(p, "cp_files")
    /\ proc' = IF ~Exists(proc[p].task, "scratchpad")
               THEN Return(p, "ValueError: Cannot create plan without scratchpad")
               ELSE [proc EXCEPT ![p].pc = "cp_exists"]
    /\ UNCHANGED <<fs, markers, lockFile, mode, superuser, session, query, lockStat, contextCache, registry, earlier>>

\* create_plan without its write-once check
PlanMayBeOverwritten(exists) == TRUE

\* line 400: the plan may be written when no plan file exists
PlanMayBeCreated(exists) == ~exists

CpExists(p) ==
    /\ At(p, "cp_exists")
    /\ proc' = IF ~PlanMayBeCreated(Exists(proc[p].task, "plan"))
               THEN Return(p, "FileExistsError")
               ELSE [proc EXCEPT ![p].pc = "cp_lock"]
    /\ UNCHANGED <<fs, markers, lockFile, mode, superuser, session, query, lockStat, contextCache, registry, earlier>>

CpLock(p) ==
    /\ At(p, "cp_lock") /\ TryAcquire(p, "cp_write")
    /\ UNCHANGED <<fs, markers, mode, superuser, session, query, lockStat, contextCache, registry, earlier>>

\* create_plan writing its template whatever the content
PlanTextTemplateOnly(c) == <<Template("plan")>>

\* lines 404-409: the content, or the template when there is none
PlanText(c) == IF c # "" THEN Text(c) ELSE <<Template("plan")>>

CpWrite(p) ==
    /\ At(p, "cp_write")
    /\ fs' = BackendWrite(fs, proc[p].task, "plan", PlanText(proc[p].content))
    /\ proc' = [proc EXCEPT ![p].pc = "cp_marker"]
    /\ UNCHANGED <<markers, lockFile, mode, superuser, session, query, lockStat, contextCache, registry, earlier>>

\* lock_phase_transition (lines 613-640)
\* create_plan making the plan read-only as it records the transition
CpMarkerLocking(p) ==
    /\ At(p, "cp_marker")
    /\ markers' = markers \cup {<<proc[p].task, "planning">>}
    /\ fs' = MakeReadonly(fs, proc[p].task, "plan")
    /\ proc' = [proc EXCEPT ![p].pc = "unlock"]
    /\ UNCHANGED <<lockFile, mode, superuser, session, query, lockStat, contextCache, registry, earlier>>

CpMarker(p) ==
    /\ At(p, "cp_marker")
    /\ markers' = markers \cup {<<proc[p].task, "planning">>}
    /\ proc' = [proc EXCEPT ![p].pc = "unlock"]
    /\ UNCHANGED <<fs, lockFile, mode, superuser, session, query, lockStat, contextCache, registry, earlier>>

\* -- append_progress (lines 417-490)
\* append_progress without its check of the plan
ApFilesUnchecked(p) ==
    /\ At(p, "ap_files")
    /\ proc' = [proc EXCEPT ![p].pc = "ap_ack"]
    /\ UNCHANGED <<fs, markers, lockFile, mode, superuser, session, query, lockStat, contextCache, registry, earlier>>

ApFiles(p) ==
    /\ At(p, "ap_files")
    /\ proc' = IF ~Exists(proc[p].task, "plan")
               THEN Return(p, "ValueError: Cannot track progress without plan")
               ELSE [proc EXCEPT ![p].pc = "ap_ack"]
    /\ UNCHANGED <<fs, markers, lockFile, mode, superuser, session, query, lockStat, contextCache, registry, earlier>>

\* agent_info in existing_progress: the name stands in a section header (no
\* content of Contents holds the name of an agent)
Mentions(text, agent) == \E i \in 1..Len(text) : text[i].agent = agent

\* lines 455-467: the progress file exists, the contributor is new to it and
\* the content holds no plan keyword
MustAcknowledge(t, agent, c) ==
    /\ Exists(t, "progress")
    /\ ~Mentions(Read(t, "progress"), agent)
    /\ c \in NoKeywordContents

ApAck(p) ==
    /\ At(p, "ap_ack")
    /\ proc' = IF MustAcknowledge(proc[p].task, proc[p].agent, proc[p].content)
               THEN Return(p, "ValueError: Multi-agent workflow violation")
               ELSE [proc EXCEPT ![p].pc = "ap_lock"]
    /\ UNCHANGED <<fs, markers, lockFile, mode, superuser, session, query, lockStat, contextCache, registry, earlier>>

ApLock(p) ==
    /\ At(p, "ap_lock") /\ TryAcquire(p, "ap_check")
    /\ UNCHANGED <<fs, markers, mode, superuser, session, query, lockStat, contextCache, registry, earlier>>

ApCheck(p) ==
    /\ At(p, "ap_check")
    /\ proc' = [proc EXCEPT ![p].pc = IF Exists(proc[p].task, "progress")
                                      THEN "ap_append" ELSE "ap_lockplan"]
    /\ UNCHANGED <<fs, markers, lockFile, mode, superuser, session, query, lockStat, contextCache, registry, earlier>>

\* the first progress entry leaving the plan writable
LockPlanSkipped(f, t) == f

\* lines 473-476: the first progress entry locks the plan
LockPlan(f, t) == IF ~Denies(f, t, "plan")
                  THEN MakeReadonly(f, t, "plan") ELSE f

ApLockPlan(p) ==
    /\ At(p, "ap_lockplan")
    /\ fs' = LockPlan(fs, proc[p].task)
    /\ proc' = [proc EXCEPT ![p].pc = "ap_template"]
    /\ UNCHANGED <<markers, lockFile, mode, superuser, session, query, lockStat, contextCache, registry, earlier>>

ApTemplate(p) ==
    /\ At(p, "ap_template")
    /\ fs' = BackendWrite(fs, proc[p].task, "progress", <<Template("progress")>>)
    /\ proc' = [proc EXCEPT ![p].pc = "ap_marker"]
    /\ UNCHANGED <<markers, lockFile, mode, superuser, session, query, lockStat, contextCache, registry, earlier>>

ApMarker(p) ==
    /\ At(p, "ap_marker")
    /\ markers' = markers \cup {<<proc[p].task, "execution">>}
    /\ proc' = [proc EXCEPT ![p].pc = "ap_append"]
    /\ UNCHANGED <<fs, lockFile, mode, superuser, session, query, lockStat, contextCache, registry, earlier>>

ProgressEntry(agent, c) == <<Chunk("Progress Update", agent, c)>>

ApAppend(p) ==
    /\ At(p, "ap_append")
    /\ fs' = BackendAppend(fs, proc[p].task, "progress", ProgressEntry(proc[p].agent, proc[p].content))
    /\ proc' = [proc EXCEPT ![p].pc = "unlock"]
    /\ UNCHANGED <<markers, lockFile, mode, superuser, session, query, lockStat, contextCache, registry, earlier>>

\* -- update_plan (lines 492-538)
UpPhase(p) ==
    /\ At(p, "up_phase")
    /\ proc' = IF get_workflow_phase(proc[p].task) # "PLANNING"
               THEN Return(p, "ValueError: Cannot edit plan in this phase")
               ELSE [proc EXCEPT ![p].pc = "up_readonly"]
    /\ UNCHANGED <<fs, markers, lockFile, mode, superuser, session, query, lockStat, contextCache, registry, earlier>>

UpReadonly(p) ==
    /\ At(p, "up_readonly")
    /\ proc' = IF is_readonly(proc[p].task, "plan")
               THEN Return(p, "ValueError: Plan is locked and cannot be edited")
               ELSE [proc EXCEPT ![p].pc = "up_lock"]
    /\ UNCHANGED <<fs, markers, lockFile, mode, superuser, session, query, lockStat, contextCache, registry, earlier>>

UpLock(p) ==
    /\ At(p, "up_lock") /\ TryAcquire(p, "up_read")
    /\ UNCHANGED <<fs, markers, mode, superuser, session, query, lockStat, contextCache, registry, earlier>>

\* "## Revision History" in original_content
HasRevisionHistory(text) == \E i \in 1..Len(text) : text[i].kind = "Revision History"

\* line 530: the content is a revision, not a whole document
IsRevision(c) == c # "" /\ ~StartsWithHeading(c)

UpRead(p) ==
    /\ At(p, "up_read")
    /\ proc' = [proc EXCEPT ![p].saw = IF IsRevision(proc[p].content)
                                       THEN HasRevisionHistory(Read(proc[p].task, "plan"))
                                       ELSE FALSE,
                            ![p].pc = "up_write"]
    /\ UNCHANGED <<fs, markers, lockFile, mode, superuser, session, query, lockStat, contextCache, registry, earlier>>

\* lines 530-536: what update_plan writes
UpdatedPlanText(c, agent, hadHistory) ==
    IF IsRevision(c)
    THEN Text(c) \o (IF ~hadHistory THEN <<Chunk("Revision History", "", "")>> ELSE <<>>)
                 \o <<Chunk("Revised", agent, "")>>
    ELSE Text(c)

UpWrite(p) ==
    /\ At(p, "up_write")
    /\ fs' = BackendWrite(fs, proc[p].task, "plan",
                          UpdatedPlanText(proc[p].content, proc[p].agent, proc[p].saw))
    /\ proc' = [proc EXCEPT ![p].pc = "unlock"]
    /\ UNCHANGED <<markers, lockFile, mode, superuser, session, query, lockStat, contextCache, registry, earlier>>

\* ------------------------------------------------------ the specification
NoQuery == [op |-> "none", task |-> "alpha", action |-> "none", phase |-> "none",
            allowed |-> FALSE, msg |-> ""]

Init ==
    /\ fs = [t \in Tasks |-> [k \in Kinds |-> NoFile]]
    /\ markers = {}
    /\ lockFile = [t \in Tasks |-> [k \in Kinds |-> 0]]
    /\ proc = [p \in Procs |-> Idle]
    /\ mode = FALSE
    /\ superuser \in BOOLEAN
    /\ session = <<>>
    /\ query = NoQuery
    /\ lockStat = NoStat
    /\ contextCache = NoCache
    /\ registry = NoRegistry
    /\ earlier = {}

\* a step of the operation that p runs
\* the steps of the scratchpad and plan operations, and of returning
PlanningRun(p) ==
    \/ Done(p)
    \/ CsLock(p) \/ CsCheck(p) \/ CsWrite(p)
    \/ CpFiles(p) \/ CpExists(p) \/ CpLock(p) \/ CpWrite(p) \/ CpMarker(p)
    \/ UpPhase(p) \/ UpReadonly(p) \/ UpLock(p) \/ UpRead(p) \/ UpWrite(p)
    \/ Unlock(p) \/ Unlink(p)

\* the steps of append_progress
AppendRun(p) ==
    \/ ApFiles(p) \/ ApAck(p) \/ ApLock(p) \/ ApCheck(p) \/ ApLockPlan(p)
    \/ ApTemplate(p) \/ ApMarker(p) \/ ApAppend(p)

EngineRun(p) == PlanningRun(p) \/ AppendRun(p)

\* the steps at which an operation waits for its lock
LockPcs == {"cs_lock", "cp_lock", "ap_lock", "up_lock"}

\* the lock of the file p waits for is held
LockHeld(p) ==
    LET t == proc[p].task
        k == LockKind(proc[p].op)
    IN  lockFile[t][k] # 0 /\ Holders(t, k, lockFile[t][k]) # {}

\* a timeout whose cleanup removes the lock file at the path
LockTimeoutReleasing(p) ==
    /\ proc[p].pc \in LockPcs /\ LockHeld(p)
    /\ proc' = Return(p, "TimeoutError")
    /\ lockFile' = [lockFile EXCEPT ![proc[p].task][LockKind(proc[p].op)] = 0]
    /\ UNCHANGED <<fs, markers, mode, superuser, session, query, lockStat, contextCache, registry, earlier>>

\* file_lock: every try of acquire found the lock held and the retry budget
\* is used up; TimeoutError is raised and release finds no handle to release
LockTimeout(p) ==
    /\ proc[p].pc \in LockPcs /\ LockHeld(p)
    /\ proc' = Return(p, "TimeoutError")
    /\ UNCHANGED <<fs, markers, lockFile, mode, superuser, session, query, lockStat, contextCache, registry, earlier>>

Next == \E p \in Procs : Call(p) \/ EngineRun(p) \/ LockTimeout(p)

\* any interleaving of engine calls by the processes, from an empty store
Spec == Init /\ [][Next]_vars

\* ------------------------------------------------------ one caller at a time
MaxSeqLen == 3          \* as MaxLen, for the sequential callers

SeqContents(op) ==
    CASE op = "create_scratchpad" -> {"", "notes"}
      [] op = "append_progress" -> {"notes", "following the plan", "# Fix"}
      [] OTHER -> {"", "notes", "# Fix"}

SeqCall(p) ==
    /\ At(p, "idle")
    /\ \E op \in EngineOps, t \in EngineTasks :
          /\ Short(op, t, MaxSeqLen)
          /\ \E c \in SeqContents(op), a \in Agents :
                Invoke(p, op, t, c, a, get_workflow_phase(t), Len(Read(t, "progress")))
    /\ UNCHANGED <<fs, markers, lockFile, mode, superuser, session, query, lockStat, contextCache, registry, earlier>>

SeqNext == SeqCall("p1") \/ EngineRun("p1")

\* the engine's calls one after the other, from an empty store
SpecSeq == Init /\ [][SeqNext]_vars

\* --------------------------------------------------- a store left by others
\* Files can be removed behind the engine, and an append_progress that is
\* interrupted after it locked the plan leaves a read-only plan without a
\* progress file: any of the task's files may be missing and its plan may be
\* read-only when the caller arrives.
StoreFile(k, present, locked) ==
    IF present THEN [exists |-> TRUE, readonly |-> locked, content |-> <<Template(k)>>] ELSE NoFile

StoreInit ==
    /\ \E s \in BOOLEAN, pl \in BOOLEAN, g \in BOOLEAN, locked \in BOOLEAN :
          fs = [t \in Tasks |->
                  IF t \in EngineTasks
                  THEN [k \in Kinds |->
                          CASE k = "scratchpad" -> StoreFile(k, s, FALSE)
                            [] k = "plan" -> StoreFile(k, pl, locked)
                            [] OTHER -> StoreFile(k, g, FALSE)]
                  ELSE [k \in Kinds |-> NoFile]]
    /\ markers = {}
    /\ lockFile = [t \in Tasks |-> [k \in Kinds |-> 0]]
    /\ proc = [p \in Procs |-> Idle]
    /\ mode = FALSE
    /\ superuser \in BOOLEAN
    /\ session = <<>>
    /\ query = NoQuery
    /\ lockStat = NoStat
    /\ contextCache = NoCache
    /\ registry = NoRegistry
    /\ earlier = {}

StoreCall(p) ==
    /\ At(p, "idle")
    /\ \E op \in EngineOps, t \in EngineTasks :
          /\ Short(op, t, MaxLen)
          /\ \E c \in OpContents(op), a \in OpAgents(op) :
                Invoke(p, op, t, c, a, get_workflow_phase(t), Len(Read(t, "progress")))
    /\ UNCHANGED <<fs, markers, lockFile, mode, superuser, session, query, lockStat, contextCache, registry, earlier>>

StoreNext == StoreCall("p1") \/ EngineRun("p1")

\* the engine's calls one after the other, on such a store
SpecStore == StoreInit /\ [][StoreNext]_vars

\* -------------------------------------------------------------- the facade
\* MemoryManager.task_memory_enforcer(task, action, content), in a session
\* that exists; session is the active_tasks list of its record
VerbOp(verb) ==
    CASE verb = "scratchpad" -> "create_scratchpad"
      [] verb = "append" -> "append_progress"
      [] verb = "ensure" -> "create_plan"
      [] OTHER -> "none"

\* the inputs of the facade's callers: no content, a content, and the
\* contents that decide a branch of the action
VerbContents(verb) ==
    CASE verb = "scratchpad" -> {"", "notes"}
      [] verb = "ensure" -> {"", "notes", "# Fix"}
      [] verb = "append" -> {"", "notes", "following the plan"}
      [] OTHER -> {"notes"}
VerbAgents(verb) == IF verb = "append" THEN Agents ELSE {"Main Agent"}

FCall(p) ==
    /\ At(p, "idle")
    /\ \E verb \in ActionStrings, t \in Tasks :
          /\ Short(VerbOp(verb), t, MaxSeqLen)
          /\ \E c \in VerbContents(verb), a \in VerbAgents(verb) :
                proc' = [proc EXCEPT ![p] =
                          [Idle EXCEPT !.pc = "f_validate", !.via = "facade", !.verb = verb,
                                       !.task = t, !.content = c, !.agent = a,
                                       !.pre = get_workflow_phase(t),
                                       !.len0 = Len(Read(t, "progress"))]]
    /\ UNCHANGED <<fs, markers, lockFile, mode, superuser, session, query, lockStat, contextCache, registry, earlier>>

\* the facade going on to the action whatever validate_action answered
FValidateIgnored(p) ==
    /\ At(p, "f_validate")
    /\ proc' = [proc EXCEPT ![p].pc = "f_session"]
    /\ UNCHANGED <<fs, markers, lockFile, mode, superuser, session, query, lockStat, contextCache, registry, earlier>>

\* lines 93-94: validate_action(task_name, action), without the content
FValidate(p) ==
    /\ At(p, "f_validate")
    /\ \E a1 \in get_active_task, a2 \in get_active_task :
          LET v == validate_action(a1, a2, proc[p].task, proc[p].verb, "")
          IN  proc' = IF v.allowed
                      THEN [proc EXCEPT ![p].pc = "f_session"]
                      ELSE [proc EXCEPT ![p].pc = "f_blocked", ![p].res = v.msg]
    /\ UNCHANGED <<fs, markers, lockFile, mode, superuser, session, query, lockStat, contextCache, registry, earlier>>

\* lines 95-102: the blocked call returns the error and the current phase
FBlocked(p) ==
    /\ At(p, "f_blocked")
    /\ proc' = [proc EXCEPT ![p].pc = "done", ![p].success = FALSE,
                             ![p].phase = get_workflow_phase(proc[p].task)]
    /\ UNCHANGED <<fs, markers, lockFile, mode, superuser, session, query, lockStat, contextCache, registry, earlier>>

\* SessionManager.update_session_tasks(task, "add"): reads the record ...
FSessionRead(p) ==
    /\ At(p, "f_session")
    /\ proc' = [proc EXCEPT ![p].tasks = session, ![p].pc = "f_session_save"]
    /\ UNCHANGED <<fs, markers, lockFile, mode, superuser, session, query, lockStat, contextCache, registry, earlier>>

AddTask(tasks, t) == IF \E i \in 1..Len(tasks) : tasks[i] = t THEN tasks ELSE Append(tasks, t)

\* ... and saves it with the task added; then lines 108, 117, 146-153 and
\* 168-174
FSessionSave(p) ==
    /\ At(p, "f_session_save")
    /\ session' = AddTask(proc[p].tasks, proc[p].task)
    /\ proc' = CASE proc[p].verb = "scratchpad" ->
                      [proc EXCEPT ![p].op = "create_scratchpad", ![p].pc = FirstPc("create_scratchpad")]
                  [] proc[p].verb = "ensure" ->
                      [proc EXCEPT ![p].pc = "f_ensure"]
                  [] proc[p].verb = "append" /\ proc[p].content = "" ->
                      [proc EXCEPT ![p].pc = "done", ![p].success = FALSE,
                                   ![p].res = "Content required for append action"]
                  [] proc[p].verb = "append" /\ proc[p].content # "" ->
                      [proc EXCEPT ![p].op = "append_progress", ![p].pc = FirstPc("append_progress")]
                  [] OTHER ->
                      [proc EXCEPT ![p].pc = "done", ![p].success = FALSE,
                                   ![p].res = "Unknown action"]
    /\ UNCHANGED <<fs, markers, lockFile, mode, superuser, query, lockStat, contextCache, registry, earlier>>

\* lines 119-123: a plan in PLANNING is updated, else a plan is created
FEnsure(p) ==
    /\ At(p, "f_ensure")
    /\ LET op == IF get_workflow_phase(proc[p].task) = "PLANNING" /\ Exists(proc[p].task, "plan")
                 THEN "update_plan" ELSE "create_plan"
       IN  proc' = [proc EXCEPT ![p].op = op, ![p].pc = FirstPc(op)]
    /\ UNCHANGED <<fs, markers, lockFile, mode, superuser, session, query, lockStat, contextCache, registry, earlier>>

SuccessMessage(op) ==
    CASE op = "create_scratchpad" -> "Scratchpad ready for exploration"
      [] op = "update_plan" -> "Plan updated (editable until execution starts)"
      [] op = "create_plan" -> "Plan created (editable until execution starts)"
      [] OTHER -> "Progress updated"

\* lines 141-149, 176-193: the result of the engine's call becomes the
\* facade's; only FileExistsError of an ensure is turned into a success
FResult(p) ==
    /\ At(p, "f_result")
    /\ LET r == proc[p].res
           now == get_workflow_phase(proc[p].task)
       IN  proc' = IF r = "ok"
                   THEN [proc EXCEPT ![p].pc = "done", ![p].success = TRUE, ![p].phase = now,
                                     ![p].res = SuccessMessage(proc[p].op)]
                   ELSE IF r = "FileExistsError" /\ proc[p].verb = "ensure"
                   THEN [proc EXCEPT ![p].pc = "done", ![p].success = TRUE, ![p].phase = now,
                                     ![p].res = "Plan already exists"]
                   ELSE [proc EXCEPT ![p].pc = "done", ![p].success = FALSE]
    /\ UNCHANGED <<fs, markers, lockFile, mode, superuser, session, query, lockStat, contextCache, registry, earlier>>

FacadeRun(p) ==
    \/ FValidate(p) \/ FBlocked(p) \/ FSessionRead(p) \/ FSessionSave(p)
    \/ FEnsure(p) \/ FResult(p)

\* an empty store; the coordination layer is present or not
FacadeInit ==
    /\ fs = [t \in Tasks |-> [k \in Kinds |-> NoFile]]
    /\ markers = {}
    /\ lockFile = [t \in Tasks |-> [k \in Kinds |-> 0]]
    /\ proc = [p \in Procs |-> Idle]
    /\ mode \in BOOLEAN
    /\ superuser \in BOOLEAN
    /\ session = <<>>
    /\ query = NoQuery
    /\ lockStat = NoStat
    /\ contextCache = NoCache
    /\ registry = NoRegistry
    /\ earlier = {}

FacadeSeqNext == FCall("p1") \/ FacadeRun("p1") \/ EngineRun("p1")

\* the facade's calls one after the other
SpecFacadeSeq == FacadeInit /\ [][FacadeSeqNext]_vars

\* the facade's calls one after the other on a store in any state: any of
\* the files of a task present
SpecFacadeStore == StoreInit /\ [][FacadeSeqNext]_vars

MaxFacadeLen == 1       \* as MaxLen, for the concurrent callers of the facade

\* the inputs of concurrent callers of the facade, who explore and plan
ConcurrentContents(verb) == IF verb = "scratchpad" THEN {""} ELSE {"notes"}

FStart(p) ==
    /\ At(p, "idle")
    /\ \E verb \in {"scratchpad", "ensure"}, t \in Tasks :
          /\ Short(VerbOp(verb), t, MaxFacadeLen)
          /\ \E c \in ConcurrentContents(verb) :
                proc' = [proc EXCEPT ![p] =
                          [Idle EXCEPT !.pc = "f_validate", !.via = "facade", !.verb = verb,
                                       !.task = t, !.content = c]]
    /\ UNCHANGED <<fs, markers, lockFile, mode, superuser, session, query, lockStat, contextCache, registry, earlier>>

\* no plan becomes read-only by these calls: the user's privileges play no part
FacadeUserInit == FacadeInit /\ ~superuser

FacadeNext == \E p \in Procs : FStart(p) \/ FacadeRun(p) \/ PlanningRun(p)

\* the facade's scratchpad and plan calls made concurrently in one session
SpecFacade == FacadeUserInit /\ [][FacadeNext]_vars

\* ------------------------------------------------------------ the queries
\* get_workflow_phase(t), asked of the store as it is
QueryPhase(t) ==
    /\ query' = [op |-> "get_workflow_phase", task |-> t, action |-> "none",
                 phase |-> get_workflow_phase(t), allowed |-> FALSE,
                 msg |-> PhaseDescription(Exists(t, "scratchpad"), Exists(t, "plan"), Exists(t, "progress"))]
    /\ UNCHANGED <<fs, markers, lockFile, proc, mode, superuser, session, lockStat, contextCache, registry, earlier>>

\* validate_action(t, action), content left at its default
QueryValidate(t, action) ==
    /\ \E a1 \in get_active_task, a2 \in get_active_task :
          LET v == validate_action(a1, a2, t, action, "")
          IN  query' = [op |-> "validate_action", task |-> t, action |-> action,
                        phase |-> get_workflow_phase(t), allowed |-> v.allowed, msg |-> v.msg]
    /\ UNCHANGED <<fs, markers, lockFile, proc, mode, superuser, session, lockStat, contextCache, registry, earlier>>

\* a store in which any of the files may be missing (files can be deleted
\* out of order behind the engine), in either mode of the enforcer
SomeFile(k) == [exists |-> TRUE, readonly |-> FALSE, content |-> <<Template(k)>>]

QueryInit ==
    /\ fs \in [Tasks -> [Kinds -> {NoFile} \cup {SomeFile(k) : k \in Kinds}]]
    /\ \A t \in Tasks, k \in Kinds : fs[t][k].exists => fs[t][k] = SomeFile(k)
    /\ markers = {}
    /\ lockFile = [t \in Tasks |-> [k \in Kinds |-> 0]]
    /\ proc = [p \in Procs |-> Idle]
    /\ mode \in BOOLEAN
    /\ superuser \in BOOLEAN
    /\ session = <<>>
    /\ query = NoQuery
    /\ lockStat = NoStat
    /\ contextCache = NoCache
    /\ registry = NoRegistry
    /\ earlier = {}

\* SessionWorkflowManager.claim_workflow(t) on the store
QueryClaim(t) ==
    /\ \E a \in get_active_task :
          LET v == claim_workflow(a, t)
          IN  query' = [op |-> "claim_workflow", task |-> t, action |-> "none",
                        phase |-> "none", allowed |-> v.allowed, msg |-> v.msg]
    /\ UNCHANGED <<fs, markers, lockFile, proc, mode, superuser, session, lockStat, contextCache, registry, earlier>>

QueryNext ==
    \/ \E t \in Tasks : QueryPhase(t)
    \/ \E t \in Tasks, a \in Actions : QueryValidate(t, a)
    \/ \E t \in Tasks : QueryClaim(t)

SpecQuery == QueryInit /\ [][QueryNext]_vars

FileTriple(t) == <<Exists(t, "scratchpad"), Exists(t, "plan"), Exists(t, "progress")>>

\* C1: get_workflow_phase returns SETUP iff no file exists, DISCOVERY iff only
\* the scratchpad, PLANNING iff scratchpad and plan without progress, EXECUTION
\* iff all three, and INVALID for each of the four other combinations.
ClaimedPhase(f) ==
    CASE f = <<FALSE, FALSE, FALSE>> -> "SETUP"
      [] f = <<TRUE, FALSE, FALSE>> -> "DISCOVERY"
      [] f = <<TRUE, TRUE, FALSE>> -> "PLANNING"
      [] f = <<TRUE, TRUE, TRUE>> -> "EXECUTION"
      [] OTHER -> "INVALID"

C1_PhaseTruthTable ==
    query.op = "get_workflow_phase" => query.phase = ClaimedPhase(FileTriple(query.task))

\* C2: with no other task active in the session, validate_action allows
\* exactly the (phase, action) pairs of the table and answers every other
\* pair with allowed = false and a message.
TableAllowed(phase) ==
    CASE phase = "SETUP" -> {"scratchpad"}
      [] phase = "DISCOVERY" -> {"scratchpad", "ensure"}
      [] phase = "PLANNING" -> {"ensure", "append"}
      [] phase = "EXECUTION" -> {"append"}
      [] phase = "INVALID" -> {}

NoOtherTaskActive(t) == \A u \in Tasks \ {t} : ~HasSessionFiles(u)

C2_ValidateActionTable ==
    (query.op = "validate_action" /\ NoOtherTaskActive(query.task)) =>
        /\ query.allowed <=> query.action \in TableAllowed(query.phase)
        /\ ~query.allowed => query.msg # ""

C2_Witness ==
    /\ query.op = "validate_action" /\ NoOtherTaskActive(query.task)
    /\ query.phase = "PLANNING" /\ query.action = "scratchpad" /\ ~query.allowed
    /\ mode

\* ------------------------------------------------- the engine, concurrently
\* C3: in every state reachable from an empty store by the engine's calls, in
\* any interleaving, a plan implies a scratchpad and a progress file implies a
\* plan, for each task; so the derived phase is never INVALID.
C3_FileOrderInvariant ==
    \A t \in Tasks :
        /\ Exists(t, "plan") => Exists(t, "scratchpad")
        /\ Exists(t, "progress") => Exists(t, "plan")
        /\ get_workflow_phase(t) # "INVALID"

\* all three files exist while a create_plan and an update_plan are under way
C3_Witness ==
    \E t \in Tasks, p \in Procs, q \in Procs :
        /\ Exists(t, "scratchpad") /\ Exists(t, "plan") /\ Exists(t, "progress")
        /\ proc[p].op = "create_plan" /\ proc[p].task = t /\ At(p, "cp_write")
        /\ proc[q].op = "append_progress" /\ proc[q].task = t /\ At(q, "ap_append")

\* C4: in every reachable state, the intermediate states of a first
\* append_progress and of concurrent callers included, a task whose progress
\* file exists has a read-only plan.
C4_PlanLockedWithProgress ==
    \A t \in Tasks : Exists(t, "progress") => IsReadonly(t, "plan")

\* the first append has just written the template while another caller, past
\* its checks, is about to write the plan
C4_Witness ==
    \E t \in Tasks, p \in Procs, q \in Procs :
        /\ proc[p].op = "append_progress" /\ proc[p].task = t /\ At(p, "ap_marker")
        /\ proc[q].op = "update_plan" /\ proc[q].task = t /\ At(q, "up_write")
        /\ Exists(t, "progress") /\ IsReadonly(t, "plan")

\* C6: of two callers that run create_plan concurrently for one task, exactly
\* one succeeds; no interleaving lets both calls return success.
C6_OneCreatePlanSucceeds ==
    \A p \in Procs, q \in Procs :
        (/\ p # q
         /\ At(p, "done") /\ proc[p].op = "create_plan"
         /\ At(q, "done") /\ proc[q].op = "create_plan"
         /\ proc[p].task = proc[q].task /\ proc[p].content # proc[q].content)
        => ~(proc[p].res = "ok" /\ proc[q].res = "ok")

\* C8: two concurrent append_progress calls of one task, both the task's first
\* append and by one contributor, neither of which timed out on the lock,
\* leave the template once and the sections of both callers in the progress
\* file.
Sections(text) == {i \in 1..Len(text) : text[i].kind = "Progress Update"}
TemplateCount(text) == Cardinality({i \in 1..Len(text) : text[i].kind = "template"})

C8_BothAppendsPresent ==
    \A p \in Procs, q \in Procs :
        (/\ p # q
         /\ At(p, "done") /\ proc[p].op = "append_progress" /\ proc[p].pre = "PLANNING"
         /\ At(q, "done") /\ proc[q].op = "append_progress" /\ proc[q].pre = "PLANNING"
         /\ proc[p].task = proc[q].task /\ proc[p].agent = proc[q].agent
         /\ proc[p].res # "TimeoutError" /\ proc[q].res # "TimeoutError")
        => LET text == Read(proc[p].task, "progress")
           IN  /\ proc[p].res = "ok" /\ proc[q].res = "ok"
               /\ TemplateCount(text) = 1
               /\ Cardinality(Sections(text)) = 2
               /\ \E i \in Sections(text) : text[i].body = proc[p].content
               /\ \E i \in Sections(text) : text[i].body = proc[q].content

\* ------------------------------------------------ the engine, sequentially
\* C5: the create_plan call on a task that has a scratchpad and no plan writes
\* its content (the template when there is none); a create_plan call on a
\* task that has a plan raises FileExistsError whatever its content, and no
\* step of it changes the plan file.
C5_SecondCreatePlanFails ==
    /\ [](\A p \in Procs :
            (At(p, "done") /\ proc[p].op = "create_plan" /\ proc[p].pre = "DISCOVERY") =>
                /\ proc[p].res = "ok"
                /\ Read(proc[p].task, "plan") =
                      IF proc[p].content = "" THEN <<Template("plan")>> ELSE <<Raw(proc[p].content)>>)
    /\ [][\A p \in Procs :
            (proc'[p].op = "create_plan" /\ proc'[p].pre \in {"PLANNING", "EXECUTION"}) =>
                /\ fs'[proc'[p].task]["plan"] = fs[proc'[p].task]["plan"]
                /\ proc'[p].pc = "done" => proc'[p].res = "FileExistsError"]_vars

C5_Witness ==
    \E p \in Procs :
        /\ At(p, "done") /\ proc[p].op = "create_plan" /\ proc[p].pre = "PLANNING"
        /\ proc[p].res = "FileExistsError"
        /\ proc[p].content = "# Fix" /\ Read(proc[p].task, "plan") = Text("notes")

\* C7: append_progress only appends.  The progress file is the template
\* followed by Progress Update sections; no step rewrites or truncates it (the
\* content before a step is a prefix of the content after it); and a call
\* that returns has added exactly one section, holding its content, at the end.
IsPrefix(u, v) == Len(u) <= Len(v) /\ SubSeq(v, 1, Len(u)) = u

ProgressShape(text) ==
    /\ text[1] = Template("progress")
    /\ \A i \in 2..Len(text) : text[i].kind = "Progress Update"

C7_ProgressAppendOnly ==
    /\ [](\A t \in Tasks : Exists(t, "progress") => ProgressShape(Read(t, "progress")))
    /\ [][\A t \in Tasks : IsPrefix(fs[t]["progress"].content, fs'[t]["progress"].content)]_vars
    /\ [](\A p \in Procs :
            (At(p, "done") /\ proc[p].op = "append_progress" /\ proc[p].res = "ok") =>
                LET text == Read(proc[p].task, "progress")
                    before == IF proc[p].len0 = 0 THEN 1 ELSE proc[p].len0
                IN  /\ Len(text) = before + 1
                    /\ text[Len(text)] = Chunk("Progress Update", proc[p].agent, proc[p].content))

\* the second append of a task has returned
C7_Witness ==
    \E p \in Procs :
        /\ At(p, "done") /\ proc[p].op = "append_progress" /\ proc[p].res = "ok"
        /\ proc[p].len0 = 2 /\ Len(Read(proc[p].task, "progress")) = 3
        /\ Read(proc[p].task, "progress")[2].body # Read(proc[p].task, "progress")[3].body

\* ------------------------------------------------- the facade, sequentially
Quiet == \A p \in Procs : proc[p].pc \in {"idle", "done"}

\* C9: after any sequence of facade calls every workflow file that exists has
\* content: the scratchpad and the progress file start from their templates,
\* and a plan given no content gets the plan template.
C9_NoEmptyWorkflowFile ==
    Quiet => \A t \in Tasks, k \in Kinds : Exists(t, k) => Read(t, k) # <<>>

\* C10: in a session with no other task, a scratchpad call on a task in SETUP
\* succeeds with phase DISCOVERY; an ensure call with content on a task in
\* DISCOVERY succeeds with phase PLANNING and leaves a plan file holding
\* exactly the content; an append call with content on a task in PLANNING
\* succeeds with phase EXECUTION, the plan is read-only and the progress file
\* holds the template and exactly one Progress Update section, with the content.
Returned(p, verb, pre) ==
    /\ At(p, "done") /\ proc[p].via = "facade" /\ proc[p].verb = verb /\ proc[p].pre = pre
    /\ NoOtherTaskActive(proc[p].task)

C10_EndToEnd ==
    \A p \in Procs :
        LET t == proc[p].task
            c == proc[p].content
        IN  /\ Returned(p, "scratchpad", "SETUP") =>
                  proc[p].success /\ proc[p].phase = "DISCOVERY"
            /\ (Returned(p, "ensure", "DISCOVERY") /\ c # "") =>
                  /\ proc[p].success /\ proc[p].phase = "PLANNING"
                  /\ Read(t, "plan") = <<Raw(c)>>
            /\ (Returned(p, "append", "PLANNING") /\ c # "") =>
                  /\ proc[p].success /\ proc[p].phase = "EXECUTION"
                  /\ IsReadonly(t, "plan")
                  /\ Read(t, "progress") = <<Template("progress"),
                                             Chunk("Progress Update", proc[p].agent, c)>>

C10_Witness ==
    \E p \in Procs :
        /\ Returned(p, "append", "PLANNING") /\ proc[p].content = "notes"
        /\ proc[p].success /\ proc[p].phase = "EXECUTION"
        /\ Read(proc[p].task, "plan") = <<Raw("# Fix")>>
        /\ session = <<proc[p].task>>

Refused(p) == proc[p].pre # "PLANNING" \/ IsReadonly(proc[p].task, "plan")

C12_UpdatePlanRefused ==
    /\ [](\A p \in Procs :
            (At(p, "done") /\ proc[p].op = "update_plan" /\ Refused(p)) =>
                proc[p].res \in {"ValueError: Cannot edit plan in this phase",
                                 "ValueError: Plan is locked and cannot be edited"})
    /\ [][\A p \in Procs :
            (proc[p].op = "update_plan" /\ Refused(p)) =>
                fs'[proc[p].task]["plan"] = fs[proc[p].task]["plan"]]_vars

\* ------------------------------------------------- the facade, concurrently
\* C13: with the coordination layer enabled, at most one task of the session
\* ever has memory files, whatever facade calls are made and however they
\* interleave.
TasksWithFiles == {t \in Tasks : \E k \in Kinds : Exists(t, k)}

C13_OneTaskPerSession == mode => Cardinality(TasksWithFiles) <= 1

\* ------------------------------------------------------------- the queries
\* C14: claim_workflow(task) succeeds when no task has files for the session
\* and when the task that has them is the one claimed, fails when the files
\* belong to another task, and changes no file, marker or session record.
C14_ClaimWorkflow ==
    /\ [](query.op = "claim_workflow" =>
            /\ ActiveTasksInSession = {} => query.allowed
            /\ ActiveTasksInSession = {query.task} => query.allowed
            /\ (ActiveTasksInSession # {} /\ query.task \notin ActiveTasksInSession) =>
                  ~query.allowed /\ query.msg # "")
    /\ [][query'.op = "claim_workflow" =>
            /\ fs' = fs /\ markers' = markers /\ lockFile' = lockFile /\ session' = session]_vars

C14_Witness ==
    /\ query.op = "claim_workflow" /\ ~query.allowed
    /\ query.task = "beta" /\ ActiveTasksInSession = {"alpha"}

\* ---------------------------------------------------------------- the lock
\* C15: at most one process at a time holds the lock of a file path: no two
\* processes are between a successful acquire and their release for the same
\* file.
Holding(p) == proc[p].ino # 0

C15_MutualExclusion ==
    \A p \in Procs : \A q \in Procs \ {p} :
        ~(/\ Holding(p) /\ Holding(q)
          /\ proc[p].task = proc[q].task /\ LockKind(proc[p].op) = LockKind(proc[q].op))

MaxRaceLen == 3         \* as MaxLen, for the concurrent facade callers of one task

\* what the callers pass: notes to the scratchpad, a whole plan to the plan
RaceContents(verb) == IF verb = "scratchpad" THEN {"notes"} ELSE {"# Fix"}

RaceStart(p) ==
    /\ At(p, "idle")
    /\ \E verb \in {"scratchpad", "ensure"}, t \in EngineTasks :
          /\ Short(VerbOp(verb), t, MaxRaceLen)
          /\ \E c \in RaceContents(verb) :
                proc' = [proc EXCEPT ![p] =
                          [Idle EXCEPT !.pc = "f_validate", !.via = "facade", !.verb = verb,
                                       !.task = t, !.content = c,
                                       !.pre = get_workflow_phase(t)]]
    /\ UNCHANGED <<fs, markers, lockFile, mode, superuser, session, query, lockStat, contextCache, registry, earlier>>

RaceNext == \E p \in Procs : RaceStart(p) \/ FacadeRun(p) \/ PlanningRun(p)

\* the facade's scratchpad and plan calls on one task, made concurrently
SpecFacadeRace == FacadeUserInit /\ [][RaceNext]_vars

\* ------------------------------------------ callers of create_scratchpad
ScratchContents == {"", "notes", "# Fix"}

ScratchCall(p) ==
    /\ At(p, "idle")
    /\ \E t \in EngineTasks, c \in ScratchContents :
          /\ Short("create_scratchpad", t, MaxLen)
          /\ Invoke(p, "create_scratchpad", t, c, "Main Agent", get_workflow_phase(t),
                    Len(Read(t, "scratchpad")))
    /\ UNCHANGED <<fs, markers, lockFile, mode, superuser, session, query, lockStat, contextCache, registry, earlier>>

ScratchRun(p) ==
    \/ Done(p) \/ CsLock(p) \/ CsCheck(p) \/ CsWrite(p) \/ Unlock(p) \/ Unlink(p)

ScratchNext == \E p \in Procs : ScratchCall(p) \/ ScratchRun(p) \/ LockTimeout(p)

\* concurrent callers of create_scratchpad on one task
SpecScratch == Init /\ [][ScratchNext]_vars

\* ------------------------------------------- contributors joining a task
MaxAckLen == 3          \* as MaxLen, for the callers of append_progress alone
AckContents == Contents \ {""}

\* a task in PLANNING, as create_scratchpad and create_plan leave it
AckInit ==
    /\ fs = [t \in Tasks |->
               IF t \in EngineTasks
               THEN [k \in Kinds |->
                       IF k = "progress" THEN NoFile
                       ELSE [exists |-> TRUE, readonly |-> FALSE, content |-> <<Template(k)>>]]
               ELSE [k \in Kinds |-> NoFile]]
    /\ markers = {<<t, "planning">> : t \in EngineTasks}
    /\ lockFile = [t \in Tasks |-> [k \in Kinds |-> 0]]
    /\ proc = [p \in Procs |-> Idle]
    /\ mode = FALSE
    /\ superuser \in BOOLEAN
    /\ session = <<>>
    /\ query = NoQuery
    /\ lockStat = NoStat
    /\ contextCache = NoCache
    /\ registry = NoRegistry
    /\ earlier = {}

AckCall(p) ==
    /\ At(p, "idle")
    /\ \E t \in EngineTasks, c \in AckContents, a \in Agents :
          /\ Short("append_progress", t, MaxAckLen)
          /\ Invoke(p, "append_progress", t, c, a, get_workflow_phase(t), Len(Read(t, "progress")))
    /\ UNCHANGED <<fs, markers, lockFile, mode, superuser, session, query, lockStat, contextCache, registry, earlier>>

AckNext == AckCall("p1") \/ Done("p1") \/ AppendRun("p1") \/ Unlock("p1") \/ Unlink("p1")

\* append_progress calls of several contributors, one after the other
SpecAck == AckInit /\ [][AckNext]_vars

\* ------------------------------ the facade's scratchpad calls, repeated
MaxDupLen == 3          \* as MaxLen, for the facade's repeated scratchpad calls
\* a short note, and a finding of at least DuplicateMinLen characters
DupContents == {"notes", "parser drops nested commas"}

DupCall(p) ==
    /\ At(p, "idle")
    /\ \E t \in Tasks, c \in DupContents :
          /\ Short("create_scratchpad", t, MaxDupLen)
          /\ proc' = [proc EXCEPT ![p] =
                        [Idle EXCEPT !.pc = "f_validate", !.via = "facade",
                                     !.verb = "scratchpad", !.task = t, !.content = c,
                                     !.pre = get_workflow_phase(t),
                                     !.len0 = Len(Read(t, "scratchpad"))]]
    /\ UNCHANGED <<fs, markers, lockFile, mode, superuser, session, query, lockStat, contextCache, registry, earlier>>

DupNext ==
    \/ DupCall("p1") \/ FValidate("p1") \/ FBlocked("p1") \/ FSessionRead("p1")
    \/ FSessionSave("p1") \/ FResult("p1") \/ ScratchRun("p1")

\* an empty store, the coordination layer present
FacadeDupInit == FacadeInit /\ mode

\* the facade's scratchpad calls one after the other
SpecFacadeDup == FacadeDupInit /\ [][DupNext]_vars

\* ------------------------------------------------ the integrity diagnosis
\* WorkflowEnforcer.validate_file_integrity (lines 582-611): its issues
EmptyIssue(k) ==
    CASE k = "scratchpad" -> "scratchpad file is empty"
      [] k = "plan" -> "plan file is empty"
      [] OTHER -> "progress file is empty"

validate_file_integrity(t) ==
    (IF Exists(t, "plan") /\ ~Exists(t, "scratchpad")
     THEN {"Plan exists without scratchpad"} ELSE {})
    \cup (IF Exists(t, "progress") /\ ~Exists(t, "plan")
          THEN {"Progress exists without plan"} ELSE {})
    \cup (IF Exists(t, "plan") /\ ~is_readonly(t, "plan")
          THEN {"Plan file is not read-only (should be immutable)"} ELSE {})
    \cup {EmptyIssue(k) : k \in {j \in Kinds : Exists(t, j) /\ Read(t, j) = <<>>}}

\* a diagnosis that makes the plan it finds writable read-only
QueryIntegrityRepairing(t) ==
    /\ query' = [op |-> "validate_file_integrity", task |-> t, action |-> "none",
                 phase |-> get_workflow_phase(t), allowed |-> FALSE, msg |-> "",
                 issues |-> validate_file_integrity(t)]
    /\ fs' = MakeReadonly(fs, t, "plan")
    /\ UNCHANGED <<markers, lockFile, proc, mode, superuser, session, lockStat, contextCache, registry, earlier>>

\* validate_file_integrity(t), asked of the store as it is
QueryIntegrity(t) ==
    /\ query' = [op |-> "validate_file_integrity", task |-> t, action |-> "none",
                 phase |-> get_workflow_phase(t), allowed |-> FALSE, msg |-> "",
                 issues |-> validate_file_integrity(t)]
    /\ UNCHANGED <<fs, markers, lockFile, proc, mode, superuser, session, lockStat, contextCache, registry, earlier>>

MaxIntegrityLen == 2    \* as MaxLen, for the calls made between diagnoses
IntegrityContents(op) == IF op = "append_progress" THEN {"following the plan"} ELSE {"", "notes"}

IntegrityCall(p) ==
    /\ At(p, "idle")
    /\ \E op \in EngineOps, t \in EngineTasks :
          /\ Short(op, t, MaxIntegrityLen)
          /\ \E c \in IntegrityContents(op) :
                Invoke(p, op, t, c, "Main Agent", get_workflow_phase(t), Len(Read(t, "progress")))
    /\ UNCHANGED <<fs, markers, lockFile, mode, superuser, session, query, lockStat, contextCache, registry, earlier>>

\* the diagnosis is asked by the caller between its calls
Diagnose(p) == At(p, "idle") /\ \E t \in EngineTasks : QueryIntegrity(t)

IntegrityNext == IntegrityCall("p1") \/ EngineRun("p1") \/ Diagnose("p1")

\* the engine's calls one after the other, the store diagnosed between them
SpecIntegrity == Init /\ [][IntegrityNext]_vars

\* any of the queries, asked by the caller between its calls
Ask(p) ==
    /\ At(p, "idle")
    /\ \/ \E t \in Tasks : QueryPhase(t)
       \/ \E t \in Tasks, a \in Actions : QueryValidate(t, a)
       \/ \E t \in Tasks : QueryClaim(t)
       \/ \E t \in Tasks : QueryIntegrity(t)

PureNext == IntegrityCall("p1") \/ EngineRun("p1") \/ Ask("p1")

\* the engine's calls one after the other, and the queries between them
SpecPure == Init /\ [][PureNext]_vars

\* -------------------------------------------------- the retry loop of acquire
MaxTries == 2           \* the tries that fit into the timeout of acquire (timeout / retry_delay)

\* with file_lock(path), on the lock of the progress file of a task
AcquireCall(p) ==
    /\ At(p, "idle")
    /\ \E t \in EngineTasks :
          proc' = [proc EXCEPT ![p] = [Idle EXCEPT !.pc = "acquire", !.op = "append_progress",
                                                    !.task = t, !.tries = MaxTries]]
    /\ UNCHANGED <<fs, markers, lockFile, mode, superuser, session, query, lockStat, contextCache, registry, earlier>>

\* a try that fails whenever the lock file is there, as O_EXCL would make it
AcquireTryExclusive(p) ==
    /\ At(p, "acquire") /\ proc[p].tries > 0
    /\ LET t == proc[p].task
           k == LockKind(proc[p].op)
       IN  IF lockFile[t][k] = 0
           THEN /\ lockFile' = [lockFile EXCEPT ![t][k] = FreshInode(t, k)]
                /\ proc' = [proc EXCEPT ![p].ino = FreshInode(t, k), ![p].pc = "held"]
           ELSE /\ lockFile' = lockFile
                /\ proc' = [proc EXCEPT ![p].tries = @ - 1]
    /\ UNCHANGED <<fs, markers, mode, superuser, session, query, lockStat, contextCache, registry, earlier>>

\* FileLock.acquire, lines 49-76, one turn of the loop: the lock file is opened,
\* made if it is not there, and flocked without blocking; the try that fails
\* closes the handle and sleeps retry_delay
AcquireTry(p) ==
    /\ At(p, "acquire") /\ proc[p].tries > 0
    /\ LET t == proc[p].task
           k == LockKind(proc[p].op)
           cur == lockFile[t][k]
       IN  IF cur = 0
           THEN /\ lockFile' = [lockFile EXCEPT ![t][k] = FreshInode(t, k)]
                /\ proc' = [proc EXCEPT ![p].ino = FreshInode(t, k), ![p].pc = "held"]
           ELSE IF Holders(t, k, cur) = {}
           THEN /\ lockFile' = lockFile
                /\ proc' = [proc EXCEPT ![p].ino = cur, ![p].pc = "held"]
           ELSE /\ lockFile' = lockFile
                /\ proc' = [proc EXCEPT ![p].tries = @ - 1]
    /\ UNCHANGED <<fs, markers, mode, superuser, session, query, lockStat, contextCache, registry, earlier>>

\* line 78 and lines 138-142: the budget is used up, file_lock raises TimeoutError
AcquireFail(p) ==
    /\ At(p, "acquire") /\ proc[p].tries = 0
    /\ proc' = Return(p, "TimeoutError")
    /\ UNCHANGED <<fs, markers, lockFile, mode, superuser, session, query, lockStat, contextCache, registry, earlier>>

\* the body of the with statement ends
BodyEnds(p) ==
    /\ At(p, "held")
    /\ proc' = [proc EXCEPT ![p].pc = "unlock"]
    /\ UNCHANGED <<fs, markers, lockFile, mode, superuser, session, query, lockStat, contextCache, registry, earlier>>

\* the holder is killed: its handle is closed with it, its lock file stays
Killed(p) ==
    /\ At(p, "held")
    /\ proc' = [proc EXCEPT ![p] = [Idle EXCEPT !.pc = "killed"]]
    /\ UNCHANGED <<fs, markers, lockFile, mode, superuser, session, query, lockStat, contextCache, registry, earlier>>

\* another process is started in its place
Started(p) ==
    /\ At(p, "killed")
    /\ proc' = [proc EXCEPT ![p] = Idle]
    /\ UNCHANGED <<fs, markers, lockFile, mode, superuser, session, query, lockStat, contextCache, registry, earlier>>

AcquireNext ==
    \E p \in Procs :
       \/ AcquireCall(p) \/ AcquireTry(p) \/ AcquireFail(p) \/ BodyEnds(p)
       \/ Unlock(p) \/ Unlink(p) \/ Done(p) \/ Killed(p) \/ Started(p)

\* processes taking and releasing one lock; a process that is in the loop of
\* acquire goes on with it
SpecAcquire ==
    /\ Init /\ [][AcquireNext]_vars
    /\ \A p \in Procs : WF_vars(AcquireTry(p) \/ AcquireFail(p))

\* ------------------------------------------------------ the stale-lock sweep
MaxAge == 3             \* the ages of a lock file that are told apart
MaxAges == 1..2         \* the values of max_age_seconds the sweep is called with

Locked(t, k) == lockFile[t][k] # 0

\* FileLock.acquire, lines 51-54: the lock file is opened with O_CREAT and
\* O_TRUNC, which makes it, empty and new, if it is not there ...
LockOpen(t, k) ==
    /\ ~Locked(t, k)
    /\ lockFile' = [lockFile EXCEPT ![t][k] = 1]
    /\ lockStat' = [lockStat EXCEPT ![t][k] = Fresh]
    /\ UNCHANGED <<fs, markers, proc, mode, superuser, session, query, contextCache, registry, earlier>>

\* ... and empties it if it is: a contender that then fails to lock it leaves
\* the holder's lock file without its pid line
LockContend(t, k) ==
    /\ Locked(t, k) /\ lockStat[t][k].alive /\ ~lockStat[t][k].opening
    /\ lockStat' = [lockStat EXCEPT ![t][k].age = 0, ![t][k].pid = FALSE]
    /\ UNCHANGED <<fs, markers, lockFile, proc, mode, superuser, session, query, contextCache, registry, earlier>>

\* lines 60-61: the holder writes its pid into the lock file
LockWriteInfo(t, k) ==
    /\ Locked(t, k) /\ lockStat[t][k].alive /\ lockStat[t][k].opening
    /\ lockStat' = [lockStat EXCEPT ![t][k].pid = TRUE, ![t][k].opening = FALSE]
    /\ UNCHANGED <<fs, markers, lockFile, proc, mode, superuser, session, query, contextCache, registry, earlier>>

\* FileLock.release, lines 81-95, by the holder
LockRelease(t, k) ==
    /\ Locked(t, k) /\ lockStat[t][k].alive
    /\ lockFile' = [lockFile EXCEPT ![t][k] = 0]
    /\ lockStat' = [lockStat EXCEPT ![t][k] = Fresh]
    /\ UNCHANGED <<fs, markers, proc, mode, superuser, session, query, contextCache, registry, earlier>>

\* the holder is killed before it releases: its lock file stays
HolderDies(t, k) ==
    /\ Locked(t, k) /\ lockStat[t][k].alive
    /\ lockStat' = [lockStat EXCEPT ![t][k].alive = FALSE]
    /\ UNCHANGED <<fs, markers, lockFile, proc, mode, superuser, session, query, contextCache, registry, earlier>>

\* time passes for every lock file
Tick ==
    /\ \E t \in Tasks, k \in Kinds : Locked(t, k) /\ lockStat[t][k].age < MaxAge
    /\ lockStat' = [t \in Tasks |-> [k \in Kinds |->
                      IF Locked(t, k) /\ lockStat[t][k].age < MaxAge
                      THEN [lockStat[t][k] EXCEPT !.age = @ + 1] ELSE lockStat[t][k]]]
    /\ UNCHANGED <<fs, markers, lockFile, proc, mode, superuser, session, query, contextCache, registry, earlier>>

\* lines 165-196 of cleanup_stale_locks, for one lock file: only a file older
\* than max_age_seconds is looked into, and it stays if its pid is of a
\* running process
Stale(t, k, max_age_seconds) ==
    /\ Locked(t, k)
    /\ lockStat[t][k].age > max_age_seconds
    /\ ~(lockStat[t][k].pid /\ lockStat[t][k].alive)

\* the sweep removing what is old, whoever holds it
StaleByAgeAlone(t, k, max_age_seconds) ==
    /\ Locked(t, k)
    /\ lockStat[t][k].age > max_age_seconds

\* cleanup_stale_locks(directory, max_age_seconds)
cleanup_stale_locks(max_age_seconds) ==
    LET stale == {tk \in Tasks \X Kinds : Stale(tk[1], tk[2], max_age_seconds)}
    IN  /\ lockFile' = [t \in Tasks |-> [k \in Kinds |->
                          IF <<t, k>> \in stale THEN 0 ELSE lockFile[t][k]]]
        /\ lockStat' = [t \in Tasks |-> [k \in Kinds |->
                          IF <<t, k>> \in stale THEN Fresh ELSE lockStat[t][k]]]
        /\ query' = [op |-> "cleanup_stale_locks", task |-> "alpha", action |-> "none",
                     phase |-> "none", allowed |-> FALSE, msg |-> "",
                     max_age_seconds |-> max_age_seconds, cleaned_count |-> Cardinality(stale)]
        /\ UNCHANGED <<fs, markers, proc, mode, superuser, session, contextCache, registry, earlier>>

SweepNext ==
    \/ \E t \in EngineTasks, k \in Kinds :
          \/ LockOpen(t, k) \/ LockContend(t, k) \/ LockWriteInfo(t, k)
          \/ LockRelease(t, k) \/ HolderDies(t, k)
    \/ Tick
    \/ \E max_age_seconds \in MaxAges : cleanup_stale_locks(max_age_seconds)

\* lock files made, aged and left behind, and the sweep run over them
SpecSweep == Init /\ [][SweepNext]_vars

\* ------------------------------------------------------ the context loader
\* the texts of the three files of task t, <<>> for a file that is not there
FilesOf(t) == [k \in Kinds |-> IF Exists(t, k) THEN Read(t, k) ELSE <<>>]

\* WorkflowContextLoader.load_existing_context(t), lines 95-145, called by p
\* between its calls: the cached context if there is one, else the context
\* built from the files and cached; derived records what the files give at
\* the call
LoadContext(p, t) ==
    LET loaded == IF contextCache[t].cached THEN contextCache[t]
                  ELSE Context(get_workflow_phase(t), FilesOf(t))
    IN  /\ At(p, "idle")
        /\ contextCache' = [contextCache EXCEPT ![t] = loaded]
        /\ query' = [op |-> "load_existing_context", task |-> t, action |-> "none",
                     phase |-> loaded.current_phase, allowed |-> FALSE, msg |-> "",
                     files |-> loaded.files,
                     derived |-> Context(get_workflow_phase(t), FilesOf(t))]
        /\ UNCHANGED <<fs, markers, lockFile, proc, mode, superuser, session, lockStat, registry, earlier>>

\* invalidate_cache(t), lines 327-333
InvalidateCache(p, t) ==
    /\ At(p, "idle") /\ contextCache[t].cached
    /\ contextCache' = [contextCache EXCEPT ![t] = NoContext]
    /\ UNCHANGED <<fs, markers, lockFile, proc, mode, superuser, session, query, lockStat, registry, earlier>>

ContextNext ==
    \/ IntegrityCall("p1") \/ EngineRun("p1")
    \/ \E t \in EngineTasks : LoadContext("p1", t) \/ InvalidateCache("p1", t)

\* the engine's calls one after the other, and between them the queries on
\* one context loader that lives as long
SpecContext == Init /\ [][ContextNext]_vars

\* ------------------------------------------------- the duplicate check alone
MaxWords == 10          \* the words a text is made of
Letters == <<"a", "b", "c", "d", "e", "f", "g", "h", "i", "j", "k", "l">>
Capitals == <<"A", "B", "C", "D", "E", "F", "G", "H", "I", "J", "K", "L">>
\* word i is its letter repeated: one long word, the others short
WordLen(i) == IF i = 1 THEN 14 ELSE 2
Word(i, cap) == [j \in 1..WordLen(i) |-> IF cap /\ j = 1 THEN Capitals[i] ELSE Letters[i]]

\* the words of S from word i on, in order, with sep between them
RECURSIVE TextFrom(_, _, _, _)
TextFrom(i, S, sep, cap) ==
    IF i > MaxWords THEN <<>>
    ELSE IF i \in S
    THEN Word(i, cap) \o (IF \E j \in S : j > i THEN sep ELSE <<>>) \o TextFrom(i + 1, S, sep, cap)
    ELSE TextFrom(i + 1, S, sep, cap)

Styles == {"plain", "messy", "twice"}
\* a text of the words of S: with single spaces; capitalised, with newlines
\* and tabs between the words and whitespace around them; or written twice
Input(S, style) ==
    CASE style = "plain" -> TextFrom(1, S, <<" ">>, FALSE)
      [] style = "messy" -> <<" ">> \o TextFrom(1, S, <<"\n", "\t">>, TRUE) \o <<"\n">>
      [] OTHER -> IF S = {} THEN <<>>
                  ELSE TextFrom(1, S, <<" ">>, FALSE) \o <<" ">> \o TextFrom(1, S, <<" ">>, FALSE)

\* the two arguments of a call of is_content_duplicate
DupInit ==
    /\ fs = [t \in Tasks |-> [k \in Kinds |-> NoFile]]
    /\ markers = {}
    /\ lockFile = [t \in Tasks |-> [k \in Kinds |-> 0]]
    /\ proc = [p \in Procs |-> Idle]
    /\ mode = FALSE
    /\ superuser = FALSE
    /\ session = <<>>
    /\ lockStat = NoStat
    /\ contextCache = NoCache
    /\ registry = NoRegistry
    /\ earlier = {}
    /\ \E S \in SUBSET (1..MaxWords), style \in Styles, n \in 0..MaxWords, other \in {"plain", "messy"} :
          query = [op |-> "call", new |-> Input(S, style), existing |-> Input(1..n, other),
                   result |-> FALSE]

DupCheck ==
    /\ query.op = "call"
    /\ query' = [query EXCEPT !.op = "is_content_duplicate",
                              !.result = is_content_duplicate(query.new, query.existing)]
    /\ UNCHANGED <<fs, markers, lockFile, proc, mode, superuser, session, lockStat, contextCache, registry, earlier>>

SpecDup == DupInit /\ [][DupCheck]_vars

\* ------------------------------------------------------------------- C17
\* the call of process p, made through the facade, asked for an action that
\* the phase the task was in does not allow
BlockedCall(pr) == pr.via = "facade" /\ pr.verb \notin TableAllowed(pr.pre)

WordStarts(s) == {i \in 1..Len(s) : s[i] \notin Whitespace /\ (i = 1 \/ s[i - 1] \in Whitespace)}
WordEnd(s, i) == CHOOSE j \in i..Len(s) :
                    /\ \A k \in i..j : s[k] \notin Whitespace
                    /\ j = Len(s) \/ s[j + 1] \in Whitespace
\* the words of s in lower case
WordsIn(s) == {[k \in 1..(WordEnd(s, i) - i + 1) |-> lower(s[i + k - 1])] : i \in WordStarts(s)}
\* the length of s with its words separated by single spaces
CollapsedLen(s) ==
    Cardinality({i \in 1..Len(s) : s[i] \notin Whitespace})
        + (IF WordStarts(s) = {} THEN 0 ELSE Cardinality(WordStarts(s)) - 1)

ClaimedDuplicate(new, existing) ==
    /\ new # <<>> /\ existing # <<>>
    /\ CollapsedLen(new) >= 20
    /\ 10 * Cardinality(WordsIn(new) \cap WordsIn(existing)) > 7 * Cardinality(WordsIn(new))

\* C18: is_content_duplicate(new, existing) is true iff both strings are not
\* empty, the new content in lower case with its whitespace collapsed has at
\* least 20 characters, and more than 0.70 of the words of new are words of
\* existing; identical content of 20 and more such characters is a
\* duplicate and content that shares no word is not.
C18_DuplicateIff ==
    query.op = "is_content_duplicate" =>
        /\ query.result = ClaimedDuplicate(query.new, query.existing)
        /\ (query.new = query.existing /\ CollapsedLen(query.new) >= 20) => query.result
        /\ WordsIn(query.new) \cap WordsIn(query.existing) = {} => ~query.result

\* a text of ten words, eight of them in the existing text, was found a
\* duplicate
C18_Witness ==
    /\ query.op = "is_content_duplicate" /\ query.result
    /\ Cardinality(WordsIn(query.new)) = 10
    /\ Cardinality(WordsIn(query.new) \cap WordsIn(query.existing)) = 8

\* ------------------------------------------------------------------- C19
\* process p is in a call of op on a task that lacks the file of kind k
Lacking(p, op, k) ==
    /\ proc'[p] # proc[p] /\ proc'[p].op = op /\ proc'[p].pc # "idle"
    /\ ~Exists(proc'[p].task, k)

\* C19: create_plan on a task without a scratchpad raises the precondition
\* error and creates no plan file and no transition marker; append_progress
\* on a task without a plan raises and creates no progress file, writes no
\* marker and sets no read-only flag.
C19_PreconditionFailures ==
    /\ [](\A p \in Procs : At(p, "done") =>
            /\ (proc[p].op = "create_plan" /\ ~Exists(proc[p].task, "scratchpad"))
                  => proc[p].res = "ValueError: Cannot create plan without scratchpad"
            /\ (proc[p].op = "append_progress" /\ ~Exists(proc[p].task, "plan"))
                  => proc[p].res = "ValueError: Cannot track progress without plan")
    /\ [][\A p \in Procs :
            (Lacking(p, "create_plan", "scratchpad") \/ Lacking(p, "append_progress", "plan"))
                => (fs' = fs /\ markers' = markers)]_vars

\* append_progress has failed on a task with a scratchpad and no plan, and
\* the task has no progress file and no marker
C19_Witness ==
    \E p \in Procs :
        /\ At(p, "done") /\ proc[p].op = "append_progress"
        /\ proc[p].res = "ValueError: Cannot track progress without plan"
        /\ Exists(proc[p].task, "scratchpad") /\ ~Exists(proc[p].task, "plan")
        /\ ~Exists(proc[p].task, "progress") /\ markers = {}

\* ------------------------------------------------------------------- C20
\* C20: under every interleaving of update_plan and append_progress calls on
\* a task, no step of an update_plan call changes the content of the plan
\* file once the progress file of the task exists.
C20_PlanFrozenByProgress ==
    [][\A p \in Procs :
          (proc[p].op = "update_plan" /\ proc'[p] # proc[p] /\ Exists(proc[p].task, "progress"))
              => fs'[proc[p].task]["plan"].content = fs[proc[p].task]["plan"].content]_vars

\* ------------------------------------------------------------------- C21
\* C21: the write of an update_plan call that goes on to return normally is
\* applied: after the step in which the call writes, the plan file holds the
\* text the call wrote, whatever a concurrent append_progress did before.
C21_UpdatePlanWriteApplied ==
    [][\A p \in Procs :
          (proc[p].op = "update_plan" /\ At(p, "up_write") /\ proc'[p].pc = "unlock")
              => fs'[proc[p].task]["plan"].content
                    = UpdatedPlanText(proc[p].content, proc[p].agent, proc[p].saw)]_vars

\* ------------------------------------------------------------------- C22
\* the progress file as it was when the call of p was made
ProgressAtCall(p) == SubSeq(Read(proc[p].task, "progress"), 1, proc[p].len0)
Violation == "ValueError: Multi-agent workflow violation"

\* the content of a call holds one of the words plan, strategy, approach,
\* based on, following, according to, in any case of letters
LowerCase(s) == [i \in 1..Len(s) |-> lower(s[i])]
Acknowledges(c) ==
    \E i \in 1..Len(Chars(c)), j \in 1..Len(Chars(c)) :
        LowerCase(SubSeq(Chars(c), i, j)) \in {
            <<"p", "l", "a", "n">>,
            <<"s", "t", "r", "a", "t", "e", "g", "y">>,
            <<"a", "p", "p", "r", "o", "a", "c", "h">>,
            <<"b", "a", "s", "e", "d", " ", "o", "n">>,
            <<"f", "o", "l", "l", "o", "w", "i", "n", "g">>,
            <<"a", "c", "c", "o", "r", "d", "i", "n", "g", " ", "t", "o">> }

\* C22: when the progress file exists and does not hold the name of the
\* caller's contributor, an append_progress with content that holds none of
\* the keywords fails and leaves the progress file as it was; when the name
\* is in the file or the content holds a keyword (in any case of letters),
\* the append succeeds and its entry is the last of the file.
C22_PlanAcknowledgment ==
    /\ [](\A p \in Procs :
            (At(p, "done") /\ proc[p].op = "append_progress" /\ proc[p].len0 > 0) =>
                LET text == Read(proc[p].task, "progress")
                    named == Mentions(ProgressAtCall(p), proc[p].agent)
                IN  /\ Len(text) >= proc[p].len0
                    /\ (~named /\ ~Acknowledges(proc[p].content))
                          => (proc[p].res = Violation /\ Len(text) = proc[p].len0)
                    /\ (named \/ Acknowledges(proc[p].content))
                          => /\ proc[p].res = "ok"
                             /\ Len(text) = proc[p].len0 + 1
                             /\ text[Len(text)].agent = proc[p].agent
                             /\ text[Len(text)].body = proc[p].content)
    /\ [][\A p \in Procs :
            (proc'[p] # proc[p] /\ proc'[p].res = Violation) => fs' = fs]_vars

\* a contributor new to the file was refused, and the file holds the entry
\* of another contributor
C22_Witness ==
    \E p \in Procs :
        /\ At(p, "done") /\ proc[p].op = "append_progress" /\ proc[p].res = Violation
        /\ Len(Read(proc[p].task, "progress")) = 2
        /\ ~Mentions(Read(proc[p].task, "progress"), proc[p].agent)

\* ------------------------------------------------------------------- C23
RevisedCount(text) == Cardinality({i \in 1..Len(text) : text[i].kind = "Revised"})

\* C23: every successful update_plan in PLANNING with a content that is not
\* empty and does not start with a top-level heading leaves a plan with a
\* Revision History section that holds one attributed Revised entry more
\* than the plan held before: the entries of earlier updates stay.
C23_RevisionAuditTrail ==
    [][\A p \in Procs :
          (/\ proc[p].op = "update_plan" /\ At(p, "up_write") /\ proc'[p].pc = "unlock"
           /\ proc[p].pre = "PLANNING"
           /\ proc[p].content # "" /\ ~StartsWithHeading(proc[p].content))
          => LET old == fs[proc[p].task]["plan"].content
                 new == fs'[proc[p].task]["plan"].content
             IN  /\ HasRevisionHistory(new)
                 /\ RevisedCount(new) = RevisedCount(old) + 1
                 /\ new[Len(new)].kind = "Revised" /\ new[Len(new)].agent = proc[p].agent]_vars

\* ------------------------------------------------------------------- C24
\* C24: under every interleaving of create_scratchpad calls on a task the
\* scratchpad holds its template once, at its head; no step removes or
\* changes what the file holds; the write of a call adds the template when
\* the file is new and then the content of the call once, and adds nothing
\* when the content is empty and the file exists.
C24_ScratchpadKeepsContent ==
    /\ [](\A t \in Tasks : Exists(t, "scratchpad") =>
            /\ TemplateCount(Read(t, "scratchpad")) = 1
            /\ Read(t, "scratchpad")[1] = Template("scratchpad"))
    /\ [][\A t \in Tasks :
            IsPrefix(fs[t]["scratchpad"].content, fs'[t]["scratchpad"].content)]_vars
    /\ [][\A p \in Procs :
            (proc[p].op = "create_scratchpad" /\ At(p, "cs_write") /\ proc'[p].pc = "unlock") =>
                LET old == fs[proc[p].task]["scratchpad"]
                    new == fs'[proc[p].task]["scratchpad"]
                    added == SubSeq(new.content, Len(old.content) + 1, Len(new.content))
                    bodies == [i \in 1..Len(added) |-> added[i].body]
                IN  /\ new.exists
                    /\ bodies = (IF old.exists THEN <<>> ELSE <<"scratchpad">>)
                                  \o (IF proc[p].content = "" THEN <<>> ELSE <<proc[p].content>>)]_vars

\* two callers have returned from create_scratchpad with contents, and the
\* scratchpad holds the template and the contents of both
C24_Witness ==
    /\ \A p \in Procs : At(p, "done") /\ proc[p].op = "create_scratchpad" /\ proc[p].res = "ok"
                          /\ proc[p].content # "" /\ proc[p].len0 = 0
    /\ Len(Read("alpha", "scratchpad")) = 3

\* ------------------------------------------------------------------- C25
\* C25: under every interleaving of scratchpad and plan calls of the facade
\* on a task, no step changes the scratchpad of the task once its plan
\* exists.
C25_ScratchpadFrozenByPlan ==
    [][\A t \in Tasks :
          Exists(t, "plan") => fs'[t]["scratchpad"] = fs[t]["scratchpad"]]_vars

\* ------------------------------------------------------------------- C29
\* C29: a plan call of the facade whose create_plan raised the write-once
\* error (the plan already exists) returns a failure: success = false with
\* the error.
C29_AlreadyExistsIsFailure ==
    [][\A p \in Procs :
          (/\ At(p, "f_result") /\ proc[p].verb = "ensure" /\ proc[p].op = "create_plan"
           /\ proc[p].res = "FileExistsError" /\ proc'[p].pc = "done")
          => (~proc'[p].success /\ proc'[p].res = "FileExistsError")]_vars

\* ------------------------------------------------------------------- C26
\* C26: without the coordination layer, validate_action(task, "scratchpad")
\* for a task in SETUP answers allowed = true also when another task has
\* files in the session.
C26_LegacyRuleOnlyWarns ==
    (/\ query.op = "validate_action" /\ ~mode
     /\ query.action = "scratchpad" /\ query.phase = "SETUP"
     /\ ~NoOtherTaskActive(query.task))
    => query.allowed

\* ------------------------------------------------------------------- C27
\* C27: with the coordination layer present, a facade scratchpad call whose
\* content duplicates what the scratchpad held when the call was made returns
\* a failure and leaves the scratchpad as it was.
C27_DuplicateScratchpadRefused ==
    \A p \in Procs :
       (/\ mode /\ At(p, "done") /\ proc[p].via = "facade" /\ proc[p].verb = "scratchpad"
        /\ proc[p].len0 > 0
        /\ is_content_duplicate(Chars(proc[p].content),
                                FileChars(proc[p].task,
                                          SubSeq(Read(proc[p].task, "scratchpad"), 1, proc[p].len0))))
       => (~proc[p].success /\ Len(Read(proc[p].task, "scratchpad")) = proc[p].len0)

\* ------------------------------------------------------------------- C28
\* C28: validate_file_integrity(task) reports an issue exactly when the task
\* has a plan without a scratchpad, progress without a plan, progress while
\* the plan file is not read-only, or an existing file that is empty; so it
\* reports nothing for DISCOVERY, PLANNING and EXECUTION as the operations
\* leave them.
InvariantBroken(t) ==
    \/ Exists(t, "plan") /\ ~Exists(t, "scratchpad")
    \/ Exists(t, "progress") /\ ~Exists(t, "plan")
    \/ Exists(t, "progress") /\ Exists(t, "plan") /\ ~fs[t]["plan"].readonly
    \/ \E k \in Kinds : Exists(t, k) /\ Read(t, k) = <<>>

C28_IssuesIffInvariantBroken ==
    [][(query'.op = "validate_file_integrity" /\ query' # query)
          => (query'.issues # {} <=> InvariantBroken(query'.task))]_vars

\* ------------------------------------------------------------------- C30
\* C30: the sweep removes every lock file whose owner no longer runs, and
\* every lock file older than the threshold; either condition is enough.
C30_EitherConditionReclaims ==
    [][\A max_age_seconds \in MaxAges :
          cleanup_stale_locks(max_age_seconds)
             => \A t \in Tasks, k \in Kinds :
                   (Locked(t, k) /\ (~lockStat[t][k].alive
                                     \/ lockStat[t][k].age > max_age_seconds))
                      => lockFile'[t][k] = 0]_vars

\* ------------------------------------------------------------------- C31
\* C31: the sweep never removes the lock file of a lock whose holder runs,
\* whatever its age and whether or not a contender has emptied it.
C31_SweepSparesHeldLocks ==
    [][(\E max_age_seconds \in MaxAges : cleanup_stale_locks(max_age_seconds))
          => \A t \in Tasks, k \in Kinds :
                (Locked(t, k) /\ lockStat[t][k].alive) => lockFile'[t][k] # 0]_vars

\* ------------------------------------------------------------------- C32
\* C32: acquire always ends, with the lock or with a failure; when the lock is
\* free (released, or left on disk by a process that died) while a waiter has
\* tries left, some process gets the lock.
SomeoneHolds == \E q \in Procs : proc[q].pc = "held"

C32_AcquireEndsAndLockIsTaken ==
    /\ \A p \in Procs :
          (proc[p].pc = "acquire") ~> (proc[p].pc \in {"held", "done", "killed"})
    /\ \A p \in Procs :
          (proc[p].pc = "acquire" /\ proc[p].tries > 0 /\ ~LockHeld(p)) ~> SomeoneHolds

\* a waiter that failed a try holds the lock whose holder was killed, the
\* lock file of the killed holder still being at the path
C32_Witness ==
    \E p \in Procs, q \in Procs :
       /\ proc[p].pc = "held" /\ proc[p].tries < MaxTries
       /\ proc[q].pc = "killed"
       /\ proc[p].ino = lockFile[proc[p].task][LockKind(proc[p].op)]

\* ------------------------------------------------------------------- C33
\* C33: the derived phase of a task is never INVALID and no step moves it
\* back or over a phase: it stays, or goes on to the next of SETUP, DISCOVERY,
\* PLANNING, EXECUTION.
PhaseRank(ph) ==
    CASE ph = "SETUP" -> 0 [] ph = "DISCOVERY" -> 1 [] ph = "PLANNING" -> 2
      [] ph = "EXECUTION" -> 3 [] OTHER -> 9

PhaseIn(f, t) == PhaseOf(f[t]["scratchpad"].exists, f[t]["plan"].exists, f[t]["progress"].exists)

AtMostOneTaskActive == Cardinality(ActiveTasksInSession) <= 1

VerdictOfEitherPath(t, action) ==
    action \in TableAllowed(get_workflow_phase(t)) /\ NoOtherTaskActive(t)

C34_PathsAgree ==
    (query.op = "validate_action" /\ AtMostOneTaskActive)
       => (query.allowed <=> VerdictOfEitherPath(query.task, query.action))

\* the legacy path has refused the first file of a second task
C34_Witness ==
    /\ query.op = "validate_action" /\ ~mode /\ AtMostOneTaskActive
    /\ query.task = "beta" /\ ActiveTasksInSession = {"alpha"}
    /\ query.action = "scratchpad" /\ ~query.allowed

\* ------------------------------------------------------------------- C35
\* C35: the phase and the file contents in the context that
\* load_existing_context(task) returns are those the files give at the call.
C35_ContextNeverStale ==
    query.op = "load_existing_context"
       => (query.phase = query.derived.current_phase /\ query.files = query.derived.files)

\* ------------------------------------------------------------------- C36
\* C36: get_workflow_phase, validate_action, validate_file_integrity and
\* claim_workflow change no memory file (existence, content, read-only flag),
\* no transition marker and no session record.
PureQueries == {"get_workflow_phase", "validate_action", "validate_file_integrity", "claim_workflow"}

C36_QueriesArePure ==
    [][(query' # query /\ query'.op \in PureQueries)
          => (fs' = fs /\ markers' = markers /\ session' = session)]_vars

\* a query has been answered on a store that holds a plan and its marker
C36_Witness ==
    /\ query.op \in PureQueries /\ query.phase = "PLANNING"
    /\ Exists(query.task, "plan") /\ markers # {}

\* ------------------------------------------------- the session registry
\* core/session_manager.py: the pointer file .session_id names the current
\* session, sessions/<id>.json is the record of a session.  Time is counted
\* in days since a record's updated_at.
MaxDays == 2
MaxAgeDays == 1..(MaxDays - 1)

\* SessionManager.get_session_info(session_id): the record, or none
get_session_info(session_id) ==
    IF session_id = "none" THEN NoSession ELSE registry.records[session_id]

\* SessionManager.create_session(): writes the record of a new id, then the
\* pointer
create_session ==
    /\ \E session_id \in SessionIds :
        /\ ~registry.records[session_id].exists
        /\ registry' = [current |-> session_id,
                        records |-> [registry.records EXCEPT ![session_id] = SessionInfo(0, <<>>)]]
        /\ query' = [op |-> "create_session", session_id |-> session_id]
    /\ UNCHANGED <<fs, markers, lockFile, proc, mode, superuser, session, lockStat, contextCache, earlier>>

\* SessionManager.switch_session(session_id): False where the session has no
\* record, else the pointer is rewritten
switch_session(session_id) ==
    /\ registry' = IF get_session_info(session_id).exists
                   THEN [registry EXCEPT !.current = session_id]
                   ELSE registry
    /\ query' = [op |-> "switch_session", session_id |-> session_id,
                 success |-> get_session_info(session_id).exists]
    /\ UNCHANGED <<fs, markers, lockFile, proc, mode, superuser, session, lockStat, contextCache, earlier>>

\* SessionManager.update_session_tasks(task_name, "add"), called alone:
\* returns where there is no pointer or no record, else adds the task and
\* sets updated_at
update_session_tasks(task_name) ==
    /\ registry.current # "none"
    /\ get_session_info(registry.current).exists
    /\ registry' = [registry EXCEPT !.records[registry.current] =
                       SessionInfo(0, AddTask(@.active_tasks, task_name))]
    /\ query' = [op |-> "update_session_tasks", task_name |-> task_name]
    /\ UNCHANGED <<fs, markers, lockFile, proc, mode, superuser, session, lockStat, contextCache, earlier>>

\* the records cleanup_old_sessions unlinks: age_days > max_age_days
Expired(max_age_days) ==
    {i \in SessionIds : registry.records[i].exists /\ registry.records[i].days > max_age_days}

\* SessionManager.cleanup_old_sessions(max_age_days)
cleanup_old_sessions(max_age_days) ==
    /\ registry' = [registry EXCEPT !.records =
                       [i \in SessionIds |-> IF i \in Expired(max_age_days)
                                             THEN NoSession ELSE registry.records[i]]]
    /\ query' = [op |-> "cleanup_old_sessions", max_age_days |-> max_age_days,
                 cleaned_count |-> Cardinality(Expired(max_age_days))]
    /\ UNCHANGED <<fs, markers, lockFile, proc, mode, superuser, session, lockStat, contextCache, earlier>>

\* a day passes with no call
DayPasses ==
    /\ \E i \in SessionIds : registry.records[i].exists /\ registry.records[i].days < MaxDays
    /\ registry' = [registry EXCEPT !.records =
                       [i \in SessionIds |->
                           IF registry.records[i].exists /\ registry.records[i].days < MaxDays
                           THEN [registry.records[i] EXCEPT !.days = @ + 1]
                           ELSE registry.records[i]]]
    /\ UNCHANGED <<fs, markers, lockFile, proc, mode, superuser, session, query, lockStat, contextCache, earlier>>

SessionNext ==
    \/ create_session
    \/ \E session_id \in SessionIds : switch_session(session_id)
    \/ \E task_name \in Tasks : update_session_tasks(task_name)
    \/ \E max_age_days \in MaxAgeDays : cleanup_old_sessions(max_age_days)
    \/ DayPasses

SpecSession == Init /\ [][SessionNext]_vars

\* ---------------------------------------------------------------- C37
\* C37: whenever the pointer file holds an id, the record of that id exists.
\* Violated: cleanup_old_sessions unlinks every record older than
\* max_age_days, the current session's included.
C37_PointerHasRecord ==
    registry.current # "none" => get_session_info(registry.current).exists

\* ---------------------------------------------------------------- C38
\* C38: concurrent update_session_tasks(add) calls lose no update: a call
\* that saves the record keeps every name that is in it, and active_tasks
\* never holds a name twice.  Violated: the record is read before the lock is
\* taken, so the later writer saves the list it read without the name the
\* earlier writer added.
NoNameTwice(tasks) == \A i, j \in 1..Len(tasks) : tasks[i] = tasks[j] => i = j
C38_NoLostUpdate ==
    /\ [](NoNameTwice(session))
    /\ [][\A p \in Procs : FSessionSave(p) =>
             \A i \in 1..Len(session) : \E j \in 1..Len(session') : session'[j] = session[i]]_vars

\* ------------------------------------------------------ listing the tasks
MaxListLen == 1         \* as MaxLen, for the calls made between listings
ListContents(op) == IF op = "append_progress" THEN {"following the plan"} ELSE {"notes"}

ListCall(p) ==
    /\ At(p, "idle")
    /\ \E op \in EngineOps, t \in Tasks :
          /\ Short(op, t, MaxListLen)
          /\ \E c \in ListContents(op) :
                Invoke(p, op, t, c, "Main Agent", get_workflow_phase(t), Len(Read(t, "progress")))
    /\ UNCHANGED <<fs, markers, lockFile, mode, superuser, session, query, lockStat, contextCache, registry, earlier>>

\* a new session begins (MemoryManager session "create", then _get_enforcer
\* with the new id): the names of the files written so far hold the old id,
\* get_task_files finds none of them any more; the phase markers have no id
\* in their names and stay
NewSession(p) ==
    /\ \A q \in Procs : At(q, "idle")
    /\ \E t \in Tasks, k \in Kinds : fs[t][k].exists
    /\ earlier' = earlier \cup {t \in Tasks : \E k \in Kinds : fs[t][k].exists}
    /\ fs' = [t \in Tasks |-> [k \in Kinds |-> NoFile]]
    /\ session' = <<>>
    /\ UNCHANGED <<markers, lockFile, proc, mode, superuser, query, lockStat, contextCache, registry>>

\* the directories list_tasks walks: those a file was written in, by this
\* session or an earlier one (a directory made by a call that wrote no file
\* is left out)
TaskDirs == {t \in Tasks : t \in earlier \/ HasSessionFiles(t)}

\* the files get_task_files finds for the current session
SessionFiles(t) == {k \in Kinds : Exists(t, k)}

\* MemoryManager.list_tasks(): every task directory with the phase that
\* get_task_status derives for it; mine and foreign record the store at the
\* call: the tasks with files of the current session, and those whose
\* directory holds files of other sessions only
list_tasks(p) ==
    /\ At(p, "idle")
    /\ query' = [op |-> "list_tasks",
                 tasks |-> [t \in TaskDirs |-> [phase |-> get_workflow_phase(t),
                                                files |-> SessionFiles(t)]],
                 count |-> Cardinality(TaskDirs),
                 mine |-> {t \in Tasks : SessionFiles(t) # {}},
                 foreign |-> {t \in earlier : SessionFiles(t) = {}}]
    /\ UNCHANGED <<fs, markers, lockFile, proc, mode, superuser, session, lockStat, contextCache, registry, earlier>>

ListNext == ListCall("p1") \/ EngineRun("p1") \/ NewSession("p1") \/ list_tasks("p1")

\* the engine's calls one after the other over several sessions, the tasks
\* listed between them
SpecList == Init /\ [][ListNext]_vars

\* ---------------------------------------------------------------- C39
\* C39: list_tasks returns exactly the tasks of the current session: a task
\* whose directory holds files of other sessions only is not listed and not
\* counted, and every task with files of the current session is listed with
\* its derived phase.  Violated: list_tasks lists every task directory.
C39_ListsOnlyThisSession ==
    query.op = "list_tasks" =>
        /\ DOMAIN query.tasks = query.mine
        /\ query.count = Cardinality(query.mine)
        /\ query.foreign \cap DOMAIN query.tasks = {}
        /\ \A t \in query.mine \cap DOMAIN query.tasks :
              LET files == query.tasks[t].files
              IN  query.tasks[t].phase =
                      PhaseOf("scratchpad" \in files, "plan" \in files, "progress" \in files)

====
